---- MODULE Spec2Model ----
(***************************************************************************)
(* Model of the PDF image extraction and reconstruction pipeline of        *)
(* Image-PDF-Optimisation.                                                 *)
(*                                                                         *)
(*  - the operator scan of extractEmbeddedImages (src/src/core/state.js,   *)
(*    and its older copy in src/src/pdf/pdfProcessor.js): the transform    *)
(*    stack, the clip side-stack, the per-page set of extracted names and  *)
(*    the record list;                                                     *)
(*  - the click handler of savePdfBtn (src/editor.js): the fail-fast gate, *)
(*    the matcher that builds the replacement plan, the patcher and the    *)
(*    final serialization.                                                 *)
(***************************************************************************)
EXTENDS Integers, Sequences, FiniteSets, TLC

(***************************************************************************)
(* Bounds of the model.                                                    *)
(***************************************************************************)
\* operators consumed by one extraction run, over all its pages
MaxOps == 4
\* operators consumed by one run of the graphics-state scan (TrackerSpec)
MaxTrackOps == 6
\* pages of the scanned document
MaxPages == 2
\* length of the save/restore runs looked ahead from a reachable state
MaxBalance == 3
\* records of state.pdfImages when Save is clicked
MaxRecords == 2
\* operators of a run over a page table with faulty objects
MaxFaultOps == 3
\* operators of a run that is repeated
MaxRerunOps == 2
\* records of the session the gallery handlers work on
MaxGallery == 2
\* operators of an extraction that may end in a page fault
MaxExtractOps == 3
\* operators of a run over a document with an object named like a shading
MaxNameOps == 3
\* the largest maxSize a HistoryManager is constructed with, the default
\* apart
MaxStackSize == 2
\* calls of push on one HistoryManager
MaxPushes == 4
\* records of a session of either extraction mode when Save is clicked
MaxModeRecords == 2

(***************************************************************************)
(* Program constants.                                                      *)
(***************************************************************************)
\* page.getViewport({ scale: 2.0 })
ViewportScale == 2
\* "Default to 100x100 if we can't get dimensions"
DefaultFormSize == 100
\* HISTORY.MAX_STACK_SIZE
DefaultStackSize == 10

(***************************************************************************)
(* Values.                                                                 *)
(***************************************************************************)
Abs(x) == IF x < 0 THEN -x ELSE x

\* [1, 0, 0, 1, 0, 0]
Identity == <<1, 0, 0, 1, 0, 0>>

\* null clip bounds are the empty tuple, {minX, minY, maxX, maxY} a 4-tuple
NoClip == <<>>

\* An object name is the sequence of its hyphen-separated parts, so that
\* the template strings `page-${n}-${name}` are sequences that are equal
\* exactly when the strings are.
NullName == <<"null">>
\* a value that is neither a string nor an object with a name property
BadName == <<"#number">>
Names == { <<"Im1">>, <<"Fm1">> }
\* an object name of the form "shading-0"
ShadingLikeName == <<"shading", "0">>

\* transform operands: a scale, a rotation with a translation, a shear
Matrices == { <<2, 0, 0, 3, 0, 0>>, <<0, 1, -1, 0, 3, 5>>, <<1, 2, 0, 1, 0, 0>> }

\* constructPath operands (args[1]): missing, too short, two points, two
\* points and a trailing x
PathDatas == { <<>>, <<1, 2>>, <<5, 1, 2, 6>>, <<0, 0, 4, 3, 7>> }

\* page.objs: what a name resolves to after the page was rendered
Absent == [kind |-> "absent", width |-> 0, height |-> 0, bbox |-> <<>>]
Bitmap(w, h) == [kind |-> "bitmap", width |-> w, height |-> h, bbox |-> <<>>]
Form(bbox) == [kind |-> "form", width |-> 0, height |-> 0, bbox |-> bbox]
\* an object the table holds whose extraction throws (page.objs.get, the
\* canvas, toDataURL)
Throwing == [kind |-> "throwing", width |-> 0, height |-> 0, bbox |-> <<>>]

ObjTables ==
    { [n \in Names |-> IF n = <<"Im1">> THEN im ELSE fm] :
        im \in {Bitmap(300, 200), Absent},
        fm \in {Form(<<0, 0, 4, 3>>), Form(<<>>)} }

VARIABLES
    \* ---- extractEmbeddedImages ----
    pc,                  \* "loop", "scan", "done"
    objs,                \* page.objs
    pageNum,
    i,                   \* index into ops.fnArray of the page
    steps,               \* operators consumed by the run so far
    budget,              \* operators the run consumes at most
    transformStack,
    currentTransform,
    clippingStack,
    currentClipBounds,
    shadingIndex,
    lastDependencyName,
    extractedObjects,
    allImages,
    imageIndex,
    \* ---- history of the scan ----
    origin,              \* <<page, operator index>> that emitted each record
    painted,             \* paint operators met on this page, per name (0, 1, 2+)
    chain,               \* the operands, while the page held transforms only
    marks,               \* tracker state before each save still open
    expect,              \* <<tracker state>> a restore has to bring back
    nSave,               \* length of the last run of consecutive saves
    nRest,               \* restores consumed since that run
    note,                \* "degenerate" after a form paint skipped for its size
    rerun,               \* the operators of a first run, replayed by a second
    \* ---- the editor session and the click handler of savePdfBtn ----
    spc,                 \* "idle", "loading", "patching", "saving", "done", "failed"
    pdfLib,              \* window.PDFLib is loaded
    pdfOriginalBytes,    \* "null", "empty", "valid", "corrupt"
    pdfImages,           \* state.pdfImages
    srcDoc,              \* the document pdfOriginalBytes holds
    pdfDoc,              \* the loaded destination document
    matchedImages,
    replacements,
    applied,             \* what became of each planned replacement so far
    saveCalls,           \* calls of pdfDoc.save
    output,              \* the document the download holds
    downloads,
    \* ---- the gallery and the image editor ----
    currentEditingImageIndex,   \* <<>> for null, else <<index>>
    masterCanvas,        \* <<>> for null, else <<width, height>>
    extracted,           \* the records as the last extraction assigned them
    edited,              \* <<the record the last return to the gallery wrote>>
    currentPdfFile,      \* "null" or "file"
    \* ---- a second invocation of the click handler of savePdfBtn ----
    second,              \* its locals, and the graph its pdfDoc names
    detached,            \* the invocations whose plan holds records that
                         \* state.pdfImages no longer holds
    \* ---- a HistoryManager (memory.js) ----
    stack,               \* this.stack, the oldest item first
    maxSize,             \* this.maxSize
    pushes,              \* calls of push so far: the k-th call pushes item k
    disposed,            \* the items cleanupHistoryItem was called with
    returned,            \* <<what the last pop returned>>, <<>> for undefined
    unbounded,           \* the items pushed and neither popped nor cleared
    currentPreviewIndex, \* state.currentPreviewIndex
    applying,            \* <<the locals of a suspended preview Apply>>, or <<>>
    editableImage,       \* the data URL the image element of the editor shows
    canvasImage          \* the content of state.masterCanvas in the editor

scanVars == <<pc, objs, pageNum, i, steps, budget, transformStack, currentTransform,
              clippingStack, currentClipBounds, shadingIndex, lastDependencyName,
              extractedObjects, allImages, imageIndex>>
histVars == <<origin, painted, chain, marks, expect, nSave, nRest, note, rerun>>
undoVars == <<stack, maxSize, pushes, disposed, returned, unbounded>>
viewVars == <<currentPreviewIndex, applying, editableImage, canvasImage>>
editVars == <<currentEditingImageIndex, masterCanvas, extracted, edited,
              currentPdfFile, second, detached, undoVars, viewVars>>
saveVars == <<spc, pdfLib, pdfOriginalBytes, pdfImages, srcDoc, pdfDoc,
              matchedImages, replacements, applied, saveCalls, output, downloads,
              editVars>>
vars == <<scanVars, histVars, saveVars>>

(***************************************************************************)
(* Transform Tracker and Clip Region Tracker.                              *)
(***************************************************************************)
Tracker == [transform |-> currentTransform, stack |-> transformStack,
            clip |-> currentClipBounds, clipStack |-> clippingStack]

\* the product with the operands exchanged
MultiplyReversed(args, cur) ==
    LET a == cur[1]  b == cur[2]  c == cur[3]
        d == cur[4]  e == cur[5]  f == cur[6]
        a0 == args[1]  b0 == args[2]  c0 == args[3]
        d0 == args[4]  e0 == args[5]  f0 == args[6]
    IN  << a * a0 + b * c0,
           a * b0 + b * d0,
           c * a0 + d * c0,
           c * b0 + d * d0,
           e * a0 + f * c0 + e0,
           e * b0 + f * d0 + f0 >>

\* the product computed on OPS.transform
MultiplyTransform(args, cur) ==
    LET a == args[1]  b == args[2]  c == args[3]
        d == args[4]  e == args[5]  f == args[6]
        a0 == cur[1]  b0 == cur[2]  c0 == cur[3]
        d0 == cur[4]  e0 == cur[5]  f0 == cur[6]
    IN  << a * a0 + b * c0,
           a * b0 + b * d0,
           c * a0 + d * c0,
           c * b0 + d * d0,
           e * a0 + f * c0 + e0,
           e * b0 + f * d0 + f0 >>

\* a save that pushes "no clip" in place of the current clip bounds
SaveTrackerWithoutClip(t) ==
    [t EXCEPT !.stack = Append(t.stack, t.transform),
              !.clipStack = Append(t.clipStack, NoClip)]

\* OPS.save on a tracker
SaveTracker(t) ==
    [t EXCEPT !.stack = Append(t.stack, t.transform),
              !.clipStack = Append(t.clipStack, t.clip)]

\* a pop without the guard on the depth
PopTransformUnguarded(t) ==
    IF Len(t.stack) > 0
    THEN [t EXCEPT !.stack = SubSeq(t.stack, 1, Len(t.stack) - 1),
                   !.transform = IF Len(t.stack) > 1
                                 THEN t.stack[Len(t.stack) - 1]
                                 ELSE t.transform]
    ELSE t

\* transformStack.pop() guarded by transformStack.length > 1
PopTransform(t) ==
    IF Len(t.stack) > 1
    THEN [t EXCEPT !.stack = SubSeq(t.stack, 1, Len(t.stack) - 1),
                   !.transform = t.stack[Len(t.stack) - 1]]
    ELSE t

\* a restore that leaves the clip side-stack alone
PopClipForgotten(t) == t

\* clippingStack.pop() guarded by clippingStack.length > 0
PopClip(t) ==
    IF Len(t.clipStack) > 0
    THEN [t EXCEPT !.clipStack = SubSeq(t.clipStack, 1, Len(t.clipStack) - 1),
                   !.clip = t.clipStack[Len(t.clipStack)]]
    ELSE t

\* a restore that pops the transform stack only
RestoreTrackerTransformOnly(t) == PopTransform(t)

\* OPS.restore on a tracker
RestoreTracker(t) == PopClip(PopTransform(t))

\* OPS.transform on a tracker
TransformTracker(t, args) ==
    LET m == MultiplyTransform(args, t.transform)
    IN  [t EXCEPT !.transform = m, !.stack[Len(t.stack)] = m]

\* the min/max reduction over pathData, j = 0, 2, 4, ...; a trailing x
\* has y undefined, and no comparison with undefined is true
RECURSIVE PathBounds(_, _, _)
PathBounds(pathData, j, acc) ==
    IF j > Len(pathData) THEN acc
    ELSE LET x == pathData[j]
             hasY == j + 1 <= Len(pathData)
             first == acc = NoClip
             minX == IF first \/ x < acc[1] THEN x ELSE acc[1]
             maxX == IF first \/ x > acc[3] THEN x ELSE acc[3]
             minY == IF hasY /\ (first \/ pathData[j + 1] < acc[2])
                     THEN pathData[j + 1] ELSE acc[2]
             maxY == IF hasY /\ (first \/ pathData[j + 1] > acc[4])
                     THEN pathData[j + 1] ELSE acc[4]
         IN  PathBounds(pathData, j + 2, <<minX, minY, maxX, maxY>>)

\* a reduction that runs on every list that holds a point
ConstructPathTrackerFromTwo(t, pathData) ==
    IF Len(pathData) >= 2
    THEN [t EXCEPT !.clip = PathBounds(pathData, 1, NoClip)]
    ELSE t

\* OPS.constructPath on a tracker
ConstructPathTracker(t, pathData) ==
    IF Len(pathData) >= 4
    THEN [t EXCEPT !.clip = PathBounds(pathData, 1, NoClip)]
    ELSE t

(***************************************************************************)
(* The operator scan of one page (state.js).                               *)
(***************************************************************************)
SetTracker(t) ==
    /\ currentTransform' = t.transform
    /\ transformStack' = t.stack
    /\ currentClipBounds' = t.clip
    /\ clippingStack' = t.clipStack

\* the chain of a page that has consumed something else than a transform
Broken == << <<>> >>

\* !actualImageName
Falsy(name) == name = NullName
\* a string, or an object with a name property
ValidName(name) == ~Falsy(name) /\ name # BadName

\* args[1] || lastDependencyName for a form, args[0] for an image
\* a fallback taken by every paint opcode whenever its name is unusable
ActualImageNameAnyPaint(code, name) ==
    IF ValidName(name) THEN name ELSE lastDependencyName

\* actualImageName = args[1] || lastDependencyName for a form, args[0]
\* for an image
ActualImageName(code, name) ==
    IF code = "paintFormXObjectBegin"
    THEN IF Falsy(name) THEN lastDependencyName ELSE name
    ELSE name

\* the size of the BBox without the scale of the current transform
FormSizeUnscaled(obj, t) ==
    IF Len(obj.bbox) >= 4
    THEN <<Abs(obj.bbox[3] - obj.bbox[1]), Abs(obj.bbox[4] - obj.bbox[2])>>
    ELSE <<DefaultFormSize, DefaultFormSize>>

\* width and height of the form region: BBox, or the default, scaled by
\* |a| and |d| of the current transform
FormSize(obj, t) ==
    LET hasBBox == Len(obj.bbox) >= 4
        w == IF hasBBox THEN Abs(obj.bbox[3] - obj.bbox[1]) ELSE DefaultFormSize
        h == IF hasBBox THEN Abs(obj.bbox[4] - obj.bbox[2]) ELSE DefaultFormSize
    IN  <<Abs(t[1] * w), Abs(t[4] * h)>>

\* extractedObjects.has(finalImageName)
AlreadyExtracted(name) == name \in extractedObjects

\* a form whose transformed width or height is not above 1 pixel
DegenerateForm(final) ==
    /\ ValidName(final)
    /\ ~AlreadyExtracted(final)
    /\ objs[final].kind = "form"
    /\ LET size == FormSize(objs[final], currentTransform)
       IN  ~(size[1] > 1 /\ size[2] > 1)

\* no second run: the operators are not recorded
NoRerun == [mode |-> "off", log |-> <<>>, pos |-> 0, first |-> <<>>]

\* the first run records what it consumes, the second run consumes what
\* the first has recorded, in the order of the record
Log(entry) ==
    /\ rerun.mode = "replay" =>
          (rerun.pos < Len(rerun.log) /\ rerun.log[rerun.pos + 1] = entry)
    /\ rerun' = CASE rerun.mode = "record" ->
                       [rerun EXCEPT !.log = Append(@, entry)]
                  [] rerun.mode = "replay" ->
                       [rerun EXCEPT !.pos = @ + 1]
                  [] OTHER -> rerun

\* a loop that steps over every second operator
NextIndexSkipping(k) == k + 2

\* for (let i = 0; i < ops.fnArray.length; i++)
NextIndex(k) == k + 1

\* one iteration of the loop over ops.fnArray has consumed an operator
\* with this opcode (and this operand, for a transform)
Consume(code, m) ==
    /\ i' = NextIndex(i)
    /\ steps' = steps + 1
    /\ chain' = IF code = "transform" /\ chain # Broken
                THEN Append(chain, m) ELSE Broken
    /\ marks' = CASE code = "save" -> Append(marks, Tracker)
                  [] code = "restore" /\ Len(marks) > 0 ->
                        SubSeq(marks, 1, Len(marks) - 1)
                  [] OTHER -> marks
    /\ expect' = IF code = "restore" /\ Len(marks) > 0
                 THEN <<marks[Len(marks)]>> ELSE <<>>
    /\ nSave' = CASE code = "save" -> IF nRest > 0 THEN 1 ELSE nSave + 1
                  [] code = "restore" -> nSave
                  [] OTHER -> 0
    /\ nRest' = IF code = "restore" THEN nRest + 1 ELSE 0
    /\ note' = IF /\ code = "paintFormXObjectBegin"
                  /\ DegenerateForm(ActualImageName(code, m))
               THEN "degenerate" ELSE "none"
    /\ Log(<<code, m>>)

Scanning == pc = "scan" /\ steps < budget

OpSave ==
    /\ UNCHANGED saveVars
    /\ Scanning
    /\ SetTracker(SaveTracker(Tracker))
    /\ Consume("save", <<>>)
    /\ UNCHANGED <<pc, objs, budget, pageNum, shadingIndex, lastDependencyName,
                   extractedObjects, allImages, imageIndex, origin, painted>>

OpRestore ==
    /\ UNCHANGED saveVars
    /\ Scanning
    /\ SetTracker(RestoreTracker(Tracker))
    /\ Consume("restore", <<>>)
    /\ UNCHANGED <<pc, objs, budget, pageNum, shadingIndex, lastDependencyName,
                   extractedObjects, allImages, imageIndex, origin, painted>>

\* OPS.transform with args = m
OpTransformWith(m) ==
    /\ Scanning
    /\ SetTracker(TransformTracker(Tracker, m))
    /\ Consume("transform", m)
    /\ UNCHANGED <<pc, objs, budget, pageNum, shadingIndex, lastDependencyName,
                   extractedObjects, allImages, imageIndex, origin, painted>>
    /\ UNCHANGED saveVars

OpTransform == \E m \in Matrices : OpTransformWith(m)

OpConstructPath ==
    /\ UNCHANGED saveVars
    /\ Scanning
    /\ \E pathData \in PathDatas :
          /\ SetTracker(ConstructPathTracker(Tracker, pathData))
          /\ Consume("constructPath", pathData)
    /\ UNCHANGED <<pc, objs, budget, pageNum, shadingIndex, lastDependencyName,
                   extractedObjects, allImages, imageIndex, origin, painted>>

\* OPS.clip only logs
OpClip ==
    /\ UNCHANGED saveVars
    /\ Scanning
    /\ Consume("clip", <<>>)
    /\ UNCHANGED <<pc, objs, budget, pageNum, transformStack, currentTransform,
                   clippingStack, currentClipBounds, shadingIndex,
                   lastDependencyName, extractedObjects, allImages, imageIndex,
                   origin, painted>>

\* any opcode the loop has no branch for
OpOther ==
    /\ UNCHANGED saveVars
    /\ Scanning
    /\ Consume("other", <<>>)
    /\ UNCHANGED <<pc, objs, budget, pageNum, transformStack, currentTransform,
                   clippingStack, currentClipBounds, shadingIndex,
                   lastDependencyName, extractedObjects, allImages, imageIndex,
                   origin, painted>>

OpDependency ==
    /\ UNCHANGED saveVars
    /\ Scanning
    /\ \E n \in Names :
          /\ lastDependencyName' = n
          /\ Consume("dependency", n)
    /\ UNCHANGED <<pc, objs, budget, pageNum, transformStack, currentTransform,
                   clippingStack, currentClipBounds, shadingIndex,
                   extractedObjects, allImages, imageIndex, origin, painted>>

(***************************************************************************)
(* Extraction Engine (state.js).                                           *)
(***************************************************************************)
\* the object allImages.push receives
Record(idx, w, h, page, name) ==
    [index |-> idx, width |-> w, height |-> h, pageNum |-> page,
     imageName |-> name, isOptimized |-> FALSE, optimizedDataURL |-> "null"]

PageTag(n) == <<"page", ToString(n)>>
\* the name of the object alone
BitmapNameBare(n, name) == name

\* `page-${pageNum}-${finalImageName}`
BitmapName(n, name) == PageTag(n) \o name
\* `page-${pageNum}-form-${finalImageName}`
FormName(n, name) == PageTag(n) \o <<"form">> \o name
\* `page-${pageNum}-shading-${shadingIndex}`
ShadingName(n, k) == PageTag(n) \o <<"shading", ToString(k)>>

\* a push that numbers the record and does not advance the counter
EmitStaleIndex(w, h, name) ==
    /\ allImages' = Append(allImages, Record(imageIndex, w, h, pageNum, name))
    /\ imageIndex' = imageIndex
    /\ origin' = Append(origin, <<pageNum, i>>)

\* allImages.push({ index: imageIndex++, ... })
Emit(w, h, name) ==
    /\ allImages' = Append(allImages, Record(imageIndex, w, h, pageNum, name))
    /\ imageIndex' = imageIndex + 1
    /\ origin' = Append(origin, <<pageNum, i>>)

\* width and height of the region a shadingFill copies from the page render
ShadingSize(clip, t) ==
    LET a == t[1]  b == t[2]  c == t[3]  d == t[4]  e == t[5]  f == t[6]
        x1 == clip[1] * a + clip[2] * c + e
        y1 == clip[1] * b + clip[2] * d + f
        x2 == clip[3] * a + clip[4] * c + e
        y2 == clip[3] * b + clip[4] * d + f
    IN  <<Abs(x2 - x1) * ViewportScale, Abs(y2 - y1) * ViewportScale>>

\* a shadingFill that counts the shading it skips for want of clip bounds
OpShadingFillCounting ==
    /\ UNCHANGED saveVars
    /\ Scanning
    /\ IF currentClipBounds # NoClip
       THEN LET size == ShadingSize(currentClipBounds, currentTransform)
            IN  IF size[1] > 1 /\ size[2] > 1
                THEN /\ Emit(size[1], size[2], ShadingName(pageNum, shadingIndex))
                     /\ shadingIndex' = shadingIndex + 1
                ELSE UNCHANGED <<allImages, imageIndex, origin, shadingIndex>>
       ELSE /\ shadingIndex' = shadingIndex + 1
            /\ UNCHANGED <<allImages, imageIndex, origin>>
    /\ Consume("shadingFill", <<>>)
    /\ UNCHANGED painted
    /\ UNCHANGED <<pc, objs, budget, pageNum, transformStack, currentTransform,
                   clippingStack, currentClipBounds, lastDependencyName,
                   extractedObjects>>

\* the branch of the loop for OPS.shadingFill
OpShadingFill ==
    /\ UNCHANGED saveVars
    /\ Scanning
    /\ IF currentClipBounds # NoClip
       THEN LET size == ShadingSize(currentClipBounds, currentTransform)
            IN  IF size[1] > 1 /\ size[2] > 1
                THEN /\ Emit(size[1], size[2], ShadingName(pageNum, shadingIndex))
                     /\ shadingIndex' = shadingIndex + 1
                ELSE UNCHANGED <<allImages, imageIndex, origin, shadingIndex>>
       ELSE UNCHANGED <<allImages, imageIndex, origin, shadingIndex>>
    /\ Consume("shadingFill", <<>>)
    /\ UNCHANGED painted
    /\ UNCHANGED <<pc, objs, budget, pageNum, transformStack, currentTransform,
                   clippingStack, currentClipBounds, lastDependencyName,
                   extractedObjects>>

\* one more paint operator names this object on this page
CountPaint(name) ==
    painted' = IF name \in Names /\ painted[name] < 2
               THEN [painted EXCEPT ![name] = @ + 1] ELSE painted

\* a skip that lets an object through whose extraction throws
SkippedUncaught(final, obj) ==
    \/ ~ValidName(final)
    \/ AlreadyExtracted(final)
    \/ obj.kind = "absent"

\* the operator is left without a record: the name is invalid, or already
\* extracted, or not in page.objs, or the extraction throws into the catch
Skipped(final, obj) ==
    \/ ~ValidName(final)
    \/ AlreadyExtracted(final)
    \/ obj.kind \in {"absent", "throwing"}

\* a paint branch that marks a valid name as extracted before it tries
\* to extract the object
PaintMarkingFirst(code, name) ==
    LET final == ActualImageName(code, name)
        obj == objs[final]
        marked == IF ValidName(final) THEN extractedObjects \cup {final}
                  ELSE extractedObjects
    IN  /\ IF Skipped(final, obj)
           THEN /\ UNCHANGED <<allImages, imageIndex, origin>>
                /\ extractedObjects' = marked
           ELSE IF obj.kind = "bitmap"
           THEN /\ Emit(obj.width, obj.height, BitmapName(pageNum, final))
                /\ extractedObjects' = marked
           ELSE IF code = "paintFormXObjectBegin"
           THEN LET size == FormSize(obj, currentTransform)
                IN  IF size[1] > 1 /\ size[2] > 1
                    THEN /\ Emit(size[1], size[2], FormName(pageNum, final))
                         /\ extractedObjects' = marked
                    ELSE /\ UNCHANGED <<allImages, imageIndex, origin>>
                         /\ extractedObjects' = marked
           ELSE /\ UNCHANGED <<allImages, imageIndex, origin>>
                /\ extractedObjects' = marked
        /\ CountPaint(final)
        /\ UNCHANGED saveVars
        /\ Consume(code, name)
        /\ UNCHANGED <<pc, objs, budget, pageNum, transformStack, currentTransform,
                       clippingStack, currentClipBounds, shadingIndex,
                       lastDependencyName>>

\* the branch of the loop for the three paint opcodes
Paint(code, name) ==
    LET final == ActualImageName(code, name)
        obj == objs[final]
    IN  /\ IF Skipped(final, obj)
           THEN UNCHANGED <<allImages, imageIndex, origin, extractedObjects>>
           ELSE IF obj.kind = "bitmap"
           THEN /\ Emit(obj.width, obj.height, BitmapName(pageNum, final))
                /\ extractedObjects' = extractedObjects \cup {final}
           ELSE IF code = "paintFormXObjectBegin"
           THEN LET size == FormSize(obj, currentTransform)
                IN  IF size[1] > 1 /\ size[2] > 1
                    THEN /\ Emit(size[1], size[2], FormName(pageNum, final))
                         /\ extractedObjects' = extractedObjects \cup {final}
                    ELSE UNCHANGED <<allImages, imageIndex, origin,
                                     extractedObjects>>
           ELSE UNCHANGED <<allImages, imageIndex, origin, extractedObjects>>
        /\ CountPaint(final)
        /\ UNCHANGED saveVars
        /\ Consume(code, name)
        /\ UNCHANGED <<pc, objs, budget, pageNum, transformStack, currentTransform,
                       clippingStack, currentClipBounds, shadingIndex,
                       lastDependencyName>>

OpPaintImageXObject ==
    /\ Scanning
    /\ \E n \in DOMAIN objs \cup {BadName} : Paint("paintImageXObject", n)

OpPaintInlineImageXObject ==
    /\ Scanning
    /\ \E n \in Names \cup {BadName} : Paint("paintInlineImageXObject", n)

OpPaintFormXObjectBegin ==
    /\ Scanning
    /\ \E n \in Names \cup {NullName, BadName} : Paint("paintFormXObjectBegin", n)

(***************************************************************************)
(* The loop over the pages.                                                *)
(***************************************************************************)
NoHistory ==
    /\ chain = <<>>
    /\ painted = [n \in Names |-> 0]
    /\ marks = <<>>
    /\ expect = <<>>
    /\ nSave = 0
    /\ nRest = 0
    /\ note = "none"

\* a page whose declarations include the index counter
BeginPageResettingIndex ==
    /\ UNCHANGED saveVars
    /\ pc = "loop"
    /\ pageNum <= MaxPages
    /\ pc' = "scan"
    /\ i' = 0
    /\ extractedObjects' = {}
    /\ transformStack' = <<Identity>>
    /\ currentTransform' = Identity
    /\ clippingStack' = <<>>
    /\ currentClipBounds' = NoClip
    /\ shadingIndex' = 0
    /\ lastDependencyName' = NullName
    /\ imageIndex' = 0
    /\ chain' = <<>>
    /\ painted' = [n \in Names |-> 0]
    /\ marks' = <<>>
    /\ expect' = <<>>
    /\ nSave' = 0
    /\ nRest' = 0
    /\ note' = "none"
    /\ UNCHANGED <<objs, pageNum, steps, budget, allImages, origin, rerun>>

\* getPage, render, getOperatorList and the declarations before the scan
BeginPage ==
    /\ UNCHANGED saveVars
    /\ pc = "loop"
    /\ pageNum <= MaxPages
    /\ pc' = "scan"
    /\ i' = 0
    /\ extractedObjects' = {}
    /\ transformStack' = <<Identity>>
    /\ currentTransform' = Identity
    /\ clippingStack' = <<>>
    /\ currentClipBounds' = NoClip
    /\ shadingIndex' = 0
    /\ lastDependencyName' = NullName
    /\ chain' = <<>>
    /\ painted' = [n \in Names |-> 0]
    /\ marks' = <<>>
    /\ expect' = <<>>
    /\ nSave' = 0
    /\ nRest' = 0
    /\ note' = "none"
    /\ UNCHANGED <<objs, pageNum, steps, budget, allImages, imageIndex, origin,
                   rerun>>

\* the operator list is exhausted: page.cleanup() and pageNum++; the
\* declarations of the loop body go out of scope
EndPage ==
    /\ UNCHANGED saveVars
    /\ pc = "scan"
    /\ pc' = "loop"
    /\ pageNum' = pageNum + 1
    /\ i' = 0
    /\ extractedObjects' = {}
    /\ transformStack' = <<Identity>>
    /\ currentTransform' = Identity
    /\ clippingStack' = <<>>
    /\ currentClipBounds' = NoClip
    /\ shadingIndex' = 0
    /\ lastDependencyName' = NullName
    /\ chain' = <<>>
    /\ painted' = [n \in Names |-> 0]
    /\ marks' = <<>>
    /\ expect' = <<>>
    /\ nSave' = 0
    /\ nRest' = 0
    /\ note' = "none"
    /\ Log(<<"endPage", <<>>>>)
    /\ UNCHANGED <<objs, steps, budget, allImages, imageIndex, origin>>

\* return allImages
Return ==
    /\ UNCHANGED saveVars
    /\ pc = "loop"
    /\ pageNum > MaxPages
    /\ pc' = "done"
    /\ UNCHANGED <<objs, pageNum, i, steps, budget, transformStack,
                   currentTransform, clippingStack, currentClipBounds,
                   shadingIndex, lastDependencyName, extractedObjects, allImages,
                   imageIndex>>
    /\ UNCHANGED histVars

\* const allImages = []; let imageIndex = 0; pageNum = 1
FunctionEntry ==
    /\ pc = "loop"
    /\ pageNum = 1
    /\ i = 0
    /\ steps = 0
    /\ transformStack = <<Identity>>
    /\ currentTransform = Identity
    /\ clippingStack = <<>>
    /\ currentClipBounds = NoClip
    /\ shadingIndex = 0
    /\ lastDependencyName = NullName
    /\ extractedObjects = {}
    /\ allImages = <<>>
    /\ imageIndex = 0
    /\ origin = <<>>
    /\ NoHistory

\* a second call of the function with the arguments of the first: every
\* variable of the scan is a local that the call declares anew
RerunKeepsCounter ==
    /\ pc = "done"
    /\ rerun.mode = "record"
    /\ rerun' = [mode |-> "replay", log |-> rerun.log, pos |-> 0,
                 first |-> allImages]
    /\ pc' = "loop"
    /\ pageNum' = 1
    /\ i' = 0
    /\ steps' = 0
    /\ transformStack' = <<Identity>>
    /\ currentTransform' = Identity
    /\ clippingStack' = <<>>
    /\ currentClipBounds' = NoClip
    /\ shadingIndex' = 0
    /\ lastDependencyName' = NullName
    /\ extractedObjects' = {}
    /\ allImages' = <<>>
    /\ imageIndex' = imageIndex
    /\ origin' = <<>>
    /\ chain' = <<>>
    /\ painted' = [n \in Names |-> 0]
    /\ marks' = <<>>
    /\ expect' = <<>>
    /\ nSave' = 0
    /\ nRest' = 0
    /\ note' = "none"
    /\ UNCHANGED <<objs, budget>>
    /\ UNCHANGED saveVars

Rerun ==
    /\ pc = "done"
    /\ rerun.mode = "record"
    /\ rerun' = [mode |-> "replay", log |-> rerun.log, pos |-> 0,
                 first |-> allImages]
    /\ pc' = "loop"
    /\ pageNum' = 1
    /\ i' = 0
    /\ steps' = 0
    /\ transformStack' = <<Identity>>
    /\ currentTransform' = Identity
    /\ clippingStack' = <<>>
    /\ currentClipBounds' = NoClip
    /\ shadingIndex' = 0
    /\ lastDependencyName' = NullName
    /\ extractedObjects' = {}
    /\ allImages' = <<>>
    /\ imageIndex' = 0
    /\ origin' = <<>>
    /\ chain' = <<>>
    /\ painted' = [n \in Names |-> 0]
    /\ marks' = <<>>
    /\ expect' = <<>>
    /\ nSave' = 0
    /\ nRest' = 0
    /\ note' = "none"
    /\ UNCHANGED <<objs, budget>>
    /\ UNCHANGED saveVars

\* one call of extractEmbeddedImages
ScanInit ==
    /\ FunctionEntry
    /\ rerun = NoRerun

(***************************************************************************)
(* The editor session when Save is clicked (editor.js).                    *)
(***************************************************************************)
\* the lengths of the session are counted in half pixels: a record of a
\* form or of a shading keeps the width and the height as computed, which
\* need not be whole numbers
Px(n) == 2 * n
\* the whole pixels of a length, as a canvas or an encoded image has them
Trunc(x) == 2 * (x \div 2)

\* (Width, Height) of the image XObjects and of the records
Dims == { <<Px(200), Px(100)>>, <<Px(200), Px(50)>> }

\* optimizedDataURL: null (the PNG dataURL of extraction is used), or the
\* data URL of a JPEG or of a PNG
Payloads == { "null", "jpeg", "png" }

Content(from, id, fmt) == [from |-> from, id |-> id, fmt |-> fmt]

\* an image XObject of the original document, with its stream bytes
ImageObject(ref, dim) ==
    [subtype |-> "Image", width |-> dim[1], height |-> dim[2],
     filter |-> "original", content |-> Content("original", ref, "original")]

\* a Form XObject of the original document
FormObject(ref) ==
    [subtype |-> "Form", width |-> 0, height |-> 0,
     filter |-> "original", content |-> Content("original", ref, "original")]

Entry(key, ref) == [key |-> key, ref |-> ref]

NoDoc == [pages |-> <<>>, dicts |-> <<>>, objects |-> <<>>]

\* pages[p] is the XObject dictionary of page p (0: none), dicts[d] the
\* entries of dictionary d in their order, objects[r] the object at
\* reference r
Doc(pages, d1, d2, dim2) ==
    [pages |-> pages, dicts |-> <<d1, d2>>,
     objects |-> <<ImageObject(1, <<Px(200), Px(100)>>), ImageObject(2, dim2),
                   FormObject(3)>>]

FirstDicts ==
    { <<Entry("K1", 1)>>,
      <<Entry("K1", 1), Entry("K2", 2)>>,
      <<Entry("K2", 2), Entry("K1", 1)>>,
      <<Entry("K1", 1), Entry("K2", 1)>>,
      <<Entry("Fm", 3), Entry("K1", 1)>> }

SecondDicts == { <<Entry("K1", 1)>>, <<Entry("K1", 2)>> }

\* one page; two pages, the second without XObjects or sharing the
\* dictionary of the first; two pages with a dictionary each
Documents ==
    { Doc(pages, d1, <<>>, dim2) :
        pages \in { <<1>>, <<1, 0>>, <<1, 1>> }, d1 \in FirstDicts, dim2 \in Dims }
    \cup
    { Doc(<<1, 2>>, d1, d2, dim2) :
        d1 \in FirstDicts, d2 \in SecondDicts, dim2 \in Dims }

\* a record of state.pdfImages as extraction and the edits leave it
SessionRecord(idx, page, dim, opt) ==
    [index |-> idx, width |-> dim[1], height |-> dim[2], pageNum |-> page,
     imageName |-> BitmapName(page, <<"Im", ToString(idx)>>),
     isOptimized |-> opt # "null", optimizedDataURL |-> opt]

RecordChoices == { <<page, dim, opt>> : page \in 1..2, dim \in Dims, opt \in Payloads }

\* extraction numbers the records in list order and scans the pages in order
RecordLists ==
    UNION { { [k \in 1..n |-> SessionRecord(k - 1, f[k][1], f[k][2], f[k][3])] :
                f \in { g \in [1..n -> RecordChoices] :
                          \A k \in 1..(n - 1) : g[k][1] <= g[k + 1][1] } } :
            n \in 0..MaxRecords }

\* window.PDFLib and state.pdfOriginalBytes when Save is clicked
GateStates ==
    { <<TRUE, "valid">>, <<TRUE, "corrupt">>, <<TRUE, "null">>,
      <<TRUE, "empty">>, <<FALSE, "valid">> }

(***************************************************************************)
(* Reconstruction Matcher (editor.js).                                     *)
(***************************************************************************)
\* state.pdfImages[0].imageName.startsWith('page_')
IsFullPageMode(images) ==
    Len(images) > 0 /\ images[1].imageName[1] = "page_"

\* imagesByPage.get(pageNum) || []
ImagesByPage(images, p) == SelectSeq(images, LAMBDA img : img.pageNum = p)

\* `${img.pageNum}-${img.index}`
ImgKey(img) == <<img.pageNum, img.index>>

\* a comparison of the widths alone
DimsMatchWidthOnly(img, width, height) == img.width = width

\* img.width === width && img.height === height
DimsMatch(img, width, height) == img.width = width /\ img.height = height

\* a search that takes the first record with the dimensions of the
\* XObject, matched before or not
RECURSIVE FirstMatchIgnoringMatched(_, _, _, _, _)
FirstMatchIgnoringMatched(pageImages, j, matched, width, height) ==
    IF j > Len(pageImages) THEN 0
    ELSE IF DimsMatch(pageImages[j], width, height)
         THEN j
         ELSE FirstMatchIgnoringMatched(pageImages, j + 1, matched, width, height)

\* the position in pageImages of the first unmatched record with the
\* dimensions of the XObject, 0 when there is none
RECURSIVE FirstMatch(_, _, _, _, _)
FirstMatch(pageImages, j, matched, width, height) ==
    IF j > Len(pageImages) THEN 0
    ELSE IF ImgKey(pageImages[j]) \notin matched
            /\ DimsMatch(pageImages[j], width, height)
         THEN j
         ELSE FirstMatch(pageImages, j + 1, matched, width, height)

Replacement(pageNo, entry, xObj, img) ==
    [pageNum |-> pageNo, xObjKeyName |-> entry.key, xObjRef |-> entry.ref,
     optimizedImg |-> img, width |-> xObj.width, height |-> xObj.height]

\* the loops over the pages and over xObjects.entries(), from entry e of
\* page pageNo on; st holds matchedImages and replacements
RECURSIVE MatchEntries(_, _, _, _, _)
MatchEntries(doc, images, pageNo, e, st) ==
    IF pageNo > Len(doc.pages) THEN st
    ELSE LET d == doc.pages[pageNo]
         IN  IF d = 0 \/ e > Len(doc.dicts[d])
             THEN MatchEntries(doc, images, pageNo + 1, 1, st)
             ELSE LET entry == doc.dicts[d][e]
                      xObj == doc.objects[entry.ref]
                      pageImages == ImagesByPage(images, pageNo)
                      j == IF xObj.subtype = "Image"
                           THEN FirstMatch(pageImages, 1, st.matched,
                                           xObj.width, xObj.height)
                           ELSE 0
                  IN  IF j = 0
                      THEN MatchEntries(doc, images, pageNo, e + 1, st)
                      ELSE MatchEntries(doc, images, pageNo, e + 1,
                             [matched |-> st.matched \cup {ImgKey(pageImages[j])},
                              plan |-> Append(st.plan,
                                 Replacement(pageNo, entry, xObj, pageImages[j]))])

BuildPlan(doc, images) ==
    MatchEntries(doc, images, 1, 1, [matched |-> {}, plan |-> <<>>])

(***************************************************************************)
(* Object Graph Patcher (editor.js).                                       *)
(***************************************************************************)
\* optimizedImg.optimizedDataURL || optimizedImg.dataURL; extraction
\* always encodes dataURL as PNG
Payload(img) ==
    IF img.optimizedDataURL # "null"
    THEN Content("optimizedDataURL", img.index, img.optimizedDataURL)
    ELSE Content("dataURL", img.index, "png")

\* the dictionary of pdfDoc.getPages()[pageNum], the page after
PageDictOffByOne(doc, pageNo) ==
    IF pageNo < Len(doc.pages) /\ doc.pages[pageNo + 1] # 0
    THEN doc.pages[pageNo + 1]
    ELSE doc.pages[pageNo]

\* the dictionary of pdfDoc.getPages()[pageNum - 1]
PageDict(doc, pageNo) == doc.pages[pageNo]

\* xObjects.set(PDFName.of(key), ref)
RECURSIVE SetEntry(_, _, _)
SetEntry(entries, key, ref) ==
    IF entries = <<>> THEN <<Entry(key, ref)>>
    ELSE IF Head(entries).key = key
         THEN <<Entry(key, ref)>> \o Tail(entries)
         ELSE <<Head(entries)>> \o SetEntry(Tail(entries), key, ref)

\* an embed that leaves the entry of the page on the old object
EmbedPngNotRepointed(doc, rep) ==
    LET img == rep.optimizedImg
        embedded == [subtype |-> "Image", width |-> img.width,
                     height |-> img.height, filter |-> "embedPng",
                     content |-> Payload(img)]
    IN  [doc EXCEPT !.objects = Append(@, embedded)]

\* pdfDoc.embedPng and the repointing of the page's entry
EmbedPng(doc, rep) ==
    LET newImageRef == Len(doc.objects) + 1
        img == rep.optimizedImg
        embedded == [subtype |-> "Image", width |-> img.width,
                     height |-> img.height, filter |-> "embedPng",
                     content |-> Payload(img)]
    IN  [doc EXCEPT !.objects = Append(@, embedded),
                    !.dicts[PageDict(doc, rep.pageNum)] =
                        SetEntry(@, rep.xObjKeyName, newImageRef)]

\* a replacement that registers the stream as a new object and repoints
\* the entry of the page
OverwriteAsNewObject(doc, rep) ==
    LET payload == Payload(rep.optimizedImg)
        stream == [subtype |-> "Image", width |-> rep.width,
                   height |-> rep.height,
                   filter |-> IF payload.fmt = "jpeg" THEN "DCTDecode"
                              ELSE "FlateDecode",
                   content |-> payload]
    IN  [doc EXCEPT !.objects = Append(@, stream),
                    !.dicts[PageDict(doc, rep.pageNum)] =
                        SetEntry(@, rep.xObjKeyName, Len(doc.objects) + 1)]

\* oldImageObj.dict = stream.dict; oldImageObj.contents = stream.contents
OverwriteInPlace(doc, rep) ==
    LET payload == Payload(rep.optimizedImg)
        stream == [subtype |-> "Image", width |-> rep.width,
                   height |-> rep.height,
                   filter |-> IF payload.fmt = "jpeg" THEN "DCTDecode"
                              ELSE "FlateDecode",
                   content |-> payload]
    IN  [doc EXCEPT !.objects[rep.xObjRef] = stream]

(***************************************************************************)
(* The click handler of savePdfBtn (editor.js).                            *)
(***************************************************************************)
\* the checks before the document is loaded
GateOutcome(lib, bytes) ==
    IF ~lib THEN "failed"
    ELSE IF bytes \in {"null", "empty"} THEN "failed"
    ELSE "loading"

\* a rejected load that is swallowed
LoadAlwaysLoaded(bytes) == "loaded"

\* await PDFDocument.load: a rejection ends in the catch of the handler
LoadOutcome(bytes) == IF bytes = "valid" THEN "loaded" ELSE "failed"

\* where the handler waits after replacement number done of plan
AfterReplacement(plan, done) ==
    IF done >= Len(plan) THEN "saving" ELSE "patching"

SaveClick ==
    /\ spc = "idle"
    /\ ~IsFullPageMode(pdfImages)
    /\ spc' = GateOutcome(pdfLib, pdfOriginalBytes)
    /\ UNCHANGED <<pdfLib, pdfOriginalBytes, pdfImages, srcDoc, pdfDoc,
                   matchedImages, replacements, applied, saveCalls, output,
                   downloads>>
    /\ UNCHANGED <<scanVars, histVars, editVars>>

\* a matcher that takes the matched records out of the session
LoadSettledConsuming ==
    /\ spc = "loading"
    /\ IF LoadOutcome(pdfOriginalBytes) = "failed"
       THEN /\ spc' = "failed"
            /\ UNCHANGED <<pdfDoc, matchedImages, replacements, detached,
                           pdfImages>>
       ELSE LET st == BuildPlan(srcDoc, pdfImages)
            IN  /\ pdfDoc' = srcDoc
                /\ matchedImages' = st.matched
                /\ replacements' = st.plan
                /\ detached' = detached \ {1}
                /\ spc' = AfterReplacement(st.plan, 0)
                /\ pdfImages' = SelectSeq(pdfImages,
                                     LAMBDA img : ImgKey(img) \notin st.matched)
    /\ UNCHANGED <<pdfLib, pdfOriginalBytes, srcDoc, applied,
                   saveCalls, output, downloads>>
    /\ UNCHANGED <<undoVars, viewVars>>
    /\ UNCHANGED <<currentEditingImageIndex, masterCanvas, extracted, edited,
                   currentPdfFile, second>>
    /\ UNCHANGED <<scanVars, histVars>>

\* the load settles; on success the matcher runs to the first await of
\* the patcher
LoadSettled ==
    /\ spc = "loading"
    /\ IF LoadOutcome(pdfOriginalBytes) = "failed"
       THEN /\ spc' = "failed"
            /\ UNCHANGED <<pdfDoc, matchedImages, replacements, detached>>
       ELSE LET st == BuildPlan(srcDoc, pdfImages)
            IN  /\ pdfDoc' = srcDoc
                /\ matchedImages' = st.matched
                /\ replacements' = st.plan
                /\ detached' = detached \ {1}
                /\ spc' = AfterReplacement(st.plan, 0)
    /\ UNCHANGED <<pdfLib, pdfOriginalBytes, pdfImages, srcDoc, applied,
                   saveCalls, output, downloads>>
    /\ UNCHANGED <<undoVars, viewVars>>
    /\ UNCHANGED <<currentEditingImageIndex, masterCanvas, extracted, edited,
                   currentPdfFile, second>>
    /\ UNCHANGED <<scanVars, histVars>>

\* one iteration of the loop over replacements; fetch or embedPng may throw
ApplyReplacement ==
    /\ spc = "patching"
    /\ LET k == Len(applied) + 1
           rep == replacements[k]
           isPng == Payload(rep.optimizedImg).fmt = "png"
       IN  /\ \/ /\ applied' = Append(applied, "failed")
                 /\ UNCHANGED pdfDoc
              \/ /\ isPng
                 /\ pdfDoc' = EmbedPng(pdfDoc, rep)
                 /\ applied' = Append(applied, "embedded")
              \/ /\ pdfDoc' = OverwriteInPlace(pdfDoc, rep)
                 /\ applied' = Append(applied, "overwritten")
           /\ spc' = AfterReplacement(replacements, k)
    /\ UNCHANGED <<pdfLib, pdfOriginalBytes, pdfImages, srcDoc, matchedImages,
                   replacements, saveCalls, output, downloads>>
    /\ UNCHANGED <<scanVars, histVars, editVars>>

\* pdfDoc.save({ useObjectStreams: false }) and the download, which reads
\* state.currentPdfFile.name and throws when clearAll has run
Serialize ==
    /\ spc = "saving"
    /\ saveCalls' = saveCalls + 1
    /\ IF currentPdfFile = "null"
       THEN /\ spc' = "failed"
            /\ UNCHANGED <<output, downloads>>
       ELSE /\ output' = pdfDoc
            /\ downloads' = downloads + 1
            /\ spc' = "done"
    /\ UNCHANGED <<pdfLib, pdfOriginalBytes, pdfImages, srcDoc, pdfDoc,
                   matchedImages, replacements, applied>>
    /\ UNCHANGED <<scanVars, histVars, editVars>>

\* the locals of an invocation that has not been started
NoSave ==
    [spc |-> "idle", pdfDoc |-> NoDoc, matchedImages |-> {},
     replacements |-> <<>>, applied |-> <<>>, graph |-> 0]

\* the gallery is shown, no image was opened in the editor and Save was
\* clicked once at most
\* constructor(maxSize = HISTORY.MAX_STACK_SIZE)
NewHistoryManager(size) ==
    /\ stack = <<>>
    /\ maxSize = size
    /\ pushes = 0
    /\ disposed = {}
    /\ returned = <<>>
    /\ unbounded = <<>>

NoSession ==
    /\ currentEditingImageIndex = <<>>
    /\ masterCanvas = <<>>
    /\ edited = <<>>
    /\ second = NoSave
    /\ detached = {}
    /\ currentPreviewIndex = 0
    /\ applying = <<>>
    /\ editableImage = <<>>
    /\ canvasImage = <<>>

NoEdit == NoSession /\ NewHistoryManager(DefaultStackSize)

\* no save is running and nothing is loaded
SaveIdle ==
    /\ spc = "idle"
    /\ pdfLib = TRUE
    /\ pdfOriginalBytes = "null"
    /\ pdfImages = <<>>
    /\ srcDoc = NoDoc
    /\ pdfDoc = NoDoc
    /\ matchedImages = {}
    /\ replacements = <<>>
    /\ applied = <<>>
    /\ saveCalls = 0
    /\ output = NoDoc
    /\ downloads = 0
    /\ NoEdit
    /\ currentPdfFile = "null"
    /\ extracted = <<>>

SaveInit ==
    /\ ScanInit
    /\ objs = [n \in Names |-> Absent]
    /\ budget = 0
    /\ spc = "idle"
    /\ \E g \in GateStates : pdfLib = g[1] /\ pdfOriginalBytes = g[2]
    /\ pdfImages \in RecordLists
    /\ srcDoc \in Documents
    /\ pdfDoc = NoDoc
    /\ matchedImages = {}
    /\ replacements = <<>>
    /\ applied = <<>>
    /\ saveCalls = 0
    /\ output = NoDoc
    /\ downloads = 0
    /\ NoEdit
    /\ currentPdfFile = "file"
    /\ extracted = pdfImages

SaveNext ==
    \/ SaveClick
    \/ LoadSettled
    \/ ApplyReplacement
    \/ Serialize

SaveSpec == SaveInit /\ [][SaveNext]_vars

(***************************************************************************)
(* The gallery, the preview and the image editor (editor.js).              *)
(***************************************************************************)
\* the quality slider, in percent
Qualities == {80}

\* width and height of the records: a bitmap of 200x100, a form region of
\* 4.5x3
GalleryDims == { <<Px(200), Px(100)>>, <<9, Px(3)>> }

\* sizes a resize or a crop in the editor leaves the canvas with
EditSizes == { <<Px(150), Px(100)>> }

\* a record as extraction pushes it: dataURL is the PNG of a canvas whose
\* width and height were assigned from the computed width and height
GalleryRecord(idx, dim, alpha) ==
    [index |-> idx, width |-> dim[1], height |-> dim[2], pageNum |-> 1,
     imageName |-> BitmapName(1, <<"Im", ToString(idx)>>),
     isOptimized |-> FALSE, optimizedDataURL |-> "null", previewQuality |-> 0,
     dataURL |-> [width |-> Trunc(dim[1]), height |-> Trunc(dim[2]),
                  alpha |-> alpha]]

GalleryLists ==
    UNION { { [k \in 1..n |-> GalleryRecord(k - 1, f[k][1], f[k][2])] :
                f \in [1..n -> GalleryDims \X BOOLEAN] } :
            n \in 1..MaxGallery }

\* an optimization that encodes every image as JPEG
OptimizeAsJpeg(img, path, quality) ==
    [img EXCEPT !.optimizedDataURL = "jpeg",
                !.isOptimized = TRUE,
                !.previewQuality = quality,
                !.width = IF path = "canvas" THEN img.dataURL.width ELSE @,
                !.height = IF path = "canvas" THEN img.dataURL.height ELSE @]

\* the body shared by bulk optimization and preview Apply: the format
\* follows hasTransparency(img.dataURL); imgWidth and imgHeight are those
\* of the record unless the canvas of img.dataURL was used
Optimize(img, path, quality) ==
    [img EXCEPT !.optimizedDataURL = IF img.dataURL.alpha THEN "png" ELSE "jpeg",
                !.isOptimized = TRUE,
                !.previewQuality = quality,
                !.width = IF path = "canvas" THEN img.dataURL.width ELSE @,
                !.height = IF path = "canvas" THEN img.dataURL.height ELSE @]

\* compressImageAdvanced is tried for opaque images only and may return null
Paths(img) == IF img.dataURL.alpha THEN {"canvas"} ELSE {"advanced", "canvas"}

InGallery == currentEditingImageIndex \in {<<>>, <<-1>>}

\* a planned replacement holds a reference to its record, not a copy: it
\* sees what a handler writes into the record while the record is in
\* state.pdfImages
Refresh(plan, images) ==
    [k \in 1..Len(plan) |->
        LET same == { j \in 1..Len(images) :
                        ImgKey(images[j]) = ImgKey(plan[k].optimizedImg) }
        IN  IF same = {} THEN plan[k]
            ELSE [plan[k] EXCEPT !.optimizedImg = images[CHOOSE j \in same : TRUE]]]

\* the plan of invocation n after the records became images
Touch(n, plan, images) ==
    IF n \in detached THEN plan ELSE Refresh(plan, images)

\* the plans of both invocations see the records of images
RecordsWritten(images) ==
    /\ replacements' = Touch(1, replacements, images)
    /\ second' = [second EXCEPT !.replacements = Touch(2, @, images)]

\* the click handler of applyBulkOptimization: the loop runs to the end,
\* or an exception at record stop + 1 ends it in the catch
BulkOptimization ==
    /\ InGallery
    /\ Len(pdfImages) > 0
    /\ \E quality \in Qualities : \E stop \in 0..Len(pdfImages) :
       \E paths \in [1..Len(pdfImages) -> {"advanced", "canvas"}] :
          /\ \A k \in 1..Len(pdfImages) :
                /\ paths[k] \in Paths(pdfImages[k])
                /\ k > stop => paths[k] = "canvas"
          /\ pdfImages' = [k \in 1..Len(pdfImages) |->
                             IF k <= stop
                             THEN Optimize(pdfImages[k], paths[k], quality)
                             ELSE pdfImages[k]]
    /\ RecordsWritten(pdfImages')
    /\ UNCHANGED <<spc, pdfLib, pdfOriginalBytes, srcDoc, pdfDoc, matchedImages,
                   applied, saveCalls, output, downloads>>
    /\ UNCHANGED <<undoVars, viewVars>>
    /\ UNCHANGED <<currentEditingImageIndex, masterCanvas, extracted, edited,
                   currentPdfFile, detached>>
    /\ UNCHANGED <<scanVars, histVars>>

\* the click handler of previewApplyBtn on the record of currentPreviewIndex
PreviewApply ==
    /\ InGallery
    /\ \E k \in 1..Len(pdfImages) : \E quality \in Qualities :
       \E path \in Paths(pdfImages[k]) :
          pdfImages' = [pdfImages EXCEPT ![k] = Optimize(@, path, quality)]
    /\ RecordsWritten(pdfImages')
    /\ UNCHANGED <<spc, pdfLib, pdfOriginalBytes, srcDoc, pdfDoc, matchedImages,
                   applied, saveCalls, output, downloads>>
    /\ UNCHANGED <<undoVars, viewVars>>
    /\ UNCHANGED <<currentEditingImageIndex, masterCanvas, extracted, edited,
                   currentPdfFile, detached>>
    /\ UNCHANGED <<scanVars, histVars>>

\* clearAll: the canvas, the records (cleanupPdfImages sets length = 0),
\* the file and the index of the edited image
ClearAll ==
    /\ masterCanvas' = <<>>
    /\ pdfImages' = <<>>
    /\ currentPdfFile' = "null"
    /\ currentEditingImageIndex' = <<-1>>
    /\ detached' = {1, 2}

\* editPdfImage(index): handleImageLoad puts the image on the canvas of the
\* editor, or fails and calls clearAll
EditPdfImage ==
    /\ InGallery
    /\ \E k \in 1..Len(pdfImages) :
          \/ /\ currentEditingImageIndex' = <<k - 1>>
             /\ masterCanvas' = <<pdfImages[k].dataURL.width,
                                  pdfImages[k].dataURL.height>>
             /\ UNCHANGED <<pdfImages, currentPdfFile, detached>>
          \/ ClearAll
    /\ UNCHANGED <<undoVars, viewVars>>
    /\ UNCHANGED <<extracted, edited, second>>
    /\ UNCHANGED <<spc, pdfLib, pdfOriginalBytes, srcDoc, pdfDoc, matchedImages,
                   replacements, applied, saveCalls, output, downloads>>
    /\ UNCHANGED <<scanVars, histVars>>

\* a resize or a crop in the editor replaces the canvas
ResizeEdit ==
    /\ ~InGallery
    /\ masterCanvas # <<>>
    /\ \E size \in EditSizes : size # masterCanvas /\ masterCanvas' = size
    /\ UNCHANGED <<undoVars, viewVars>>
    /\ UNCHANGED <<currentEditingImageIndex, extracted, edited, pdfImages,
                   currentPdfFile, second, detached>>
    /\ UNCHANGED <<spc, pdfLib, pdfOriginalBytes, srcDoc, pdfDoc, matchedImages,
                   replacements, applied, saveCalls, output, downloads>>
    /\ UNCHANGED <<scanVars, histVars>>

\* what the handler of backToGalleryBtn may write into the record of the
\* edited image: the canvas, or nothing when there is no canvas or
\* toDataURL throws
Written ==
    {<<>>} \cup
    IF masterCanvas = <<>> THEN {}
    ELSE { << [pdfImages[currentEditingImageIndex[1] + 1]
                 EXCEPT !.optimizedDataURL = format,
                        !.isOptimized = TRUE,
                        !.previewQuality = quality,
                        !.width = masterCanvas[1],
                        !.height = masterCanvas[2]] >> :
             format \in {"jpeg", "png"}, quality \in Qualities }

\* the click handler of backToGalleryBtn: the canvas is written to the
\* record of the edited image, then clearAll()
BackToGallery ==
    /\ ~InGallery
    /\ \E written \in Written :
          /\ edited' = IF written = <<>> THEN edited ELSE written
          /\ RecordsWritten(written)
    /\ ClearAll
    /\ UNCHANGED <<extracted, undoVars, viewVars>>
    /\ UNCHANGED <<spc, pdfLib, pdfOriginalBytes, srcDoc, pdfDoc, matchedImages,
                   applied, saveCalls, output, downloads>>
    /\ UNCHANGED <<scanVars, histVars>>

\* the click handler of clearAllBtn
ClearAllClick ==
    /\ pdfImages # <<>>
    /\ ClearAll
    /\ UNCHANGED <<undoVars, viewVars>>
    /\ UNCHANGED <<extracted, edited, second>>
    /\ UNCHANGED <<spc, pdfLib, pdfOriginalBytes, srcDoc, pdfDoc, matchedImages,
                   replacements, applied, saveCalls, output, downloads>>
    /\ UNCHANGED <<scanVars, histVars>>

\* the documents of one page an upload may bring: K1 names object 1, or
\* K1 and K2 both do
UploadDocs ==
    { Doc(<<1>>, d1, <<>>, <<Px(200), Px(50)>>) :
        d1 \in { <<Entry("K1", 1)>>, <<Entry("K1", 1), Entry("K2", 1)>> } }

\* the records an upload may bring: one opaque bitmap of 200x100
UploadLists == { <<GalleryRecord(0, <<Px(200), Px(100)>>, FALSE)>> }

\* the change handler of pdfUpload: extractImagesFromPDF stores the bytes,
\* then assigns what the extraction returns, which is thrown as an error
\* when it is empty; when the extraction throws the records of the
\* document before stay
Upload ==
    /\ InGallery
    /\ currentPdfFile' = "file"
    /\ pdfOriginalBytes' = "valid"
    /\ srcDoc' \in UploadDocs
    /\ \/ \E new \in UploadLists \cup {<<>>} :
             /\ pdfImages' = new
             /\ extracted' = new
             /\ detached' = {1, 2}
       \/ UNCHANGED <<pdfImages, extracted, detached>>
    /\ UNCHANGED <<undoVars, viewVars>>
    /\ UNCHANGED <<currentEditingImageIndex, masterCanvas, edited, second>>
    /\ UNCHANGED <<spc, pdfLib, pdfDoc, matchedImages,
                   replacements, applied, saveCalls, output, downloads>>
    /\ UNCHANGED <<scanVars, histVars>>

EditInit ==
    /\ ScanInit
    /\ objs = [n \in Names |-> Absent]
    /\ budget = 0
    /\ spc = "idle"
    /\ pdfLib = TRUE
    /\ pdfOriginalBytes = "valid"
    /\ pdfImages \in GalleryLists
    /\ srcDoc \in UploadDocs
    /\ pdfDoc = NoDoc
    /\ matchedImages = {}
    /\ replacements = <<>>
    /\ applied = <<>>
    /\ saveCalls = 0
    /\ output = NoDoc
    /\ downloads = 0
    /\ NoEdit
    /\ currentPdfFile = "file"
    /\ extracted = pdfImages

EditNext ==
    \/ BulkOptimization
    \/ PreviewApply
    \/ EditPdfImage
    \/ ResizeEdit
    \/ BackToGallery
    \/ ClearAllClick
    \/ SaveNext

EditSpec == EditInit /\ [][EditNext]_vars

(***************************************************************************)
(* Save clicked again while the first invocation is suspended.             *)
(***************************************************************************)
\* a load that hands every invocation the graph of the first
GraphShared(n) == 1

\* PDFDocument.load parses the bytes into a graph of its own: invocation n
\* holds graph n in its const pdfDoc
LoadedGraph(n) == n

\* the graph a handle names: 1 is the pdfDoc of the first invocation
Graph(g) == IF g = 1 THEN pdfDoc ELSE second.pdfDoc

\* the second click: showLoading(true) disables nothing
SecondClick ==
    /\ spc # "idle"
    /\ second.spc = "idle"
    /\ ~IsFullPageMode(pdfImages)
    /\ second' = [second EXCEPT !.spc = GateOutcome(pdfLib, pdfOriginalBytes)]
    /\ UNCHANGED <<spc, pdfLib, pdfOriginalBytes, pdfImages, srcDoc, pdfDoc,
                   matchedImages, replacements, applied, saveCalls, output,
                   downloads>>
    /\ UNCHANGED <<undoVars, viewVars>>
    /\ UNCHANGED <<currentEditingImageIndex, masterCanvas, extracted, edited,
                   currentPdfFile, detached>>
    /\ UNCHANGED <<scanVars, histVars>>

SecondLoadSettled ==
    /\ second.spc = "loading"
    /\ IF LoadOutcome(pdfOriginalBytes) = "failed"
       THEN /\ second' = [second EXCEPT !.spc = "failed"]
            /\ UNCHANGED detached
       ELSE LET g == LoadedGraph(2)
                doc == IF g = 2 THEN srcDoc ELSE Graph(g)
                st == BuildPlan(doc, pdfImages)
            IN  /\ second' = [second EXCEPT !.graph = g,
                                            !.pdfDoc = IF g = 2 THEN srcDoc ELSE @,
                                            !.matchedImages = st.matched,
                                            !.replacements = st.plan,
                                            !.spc = AfterReplacement(st.plan, 0)]
                /\ detached' = detached \ {2}
    /\ UNCHANGED <<spc, pdfLib, pdfOriginalBytes, pdfImages, srcDoc, pdfDoc,
                   matchedImages, replacements, applied, saveCalls, output,
                   downloads>>
    /\ UNCHANGED <<undoVars, viewVars>>
    /\ UNCHANGED <<currentEditingImageIndex, masterCanvas, extracted, edited,
                   currentPdfFile>>
    /\ UNCHANGED <<scanVars, histVars>>

\* the graph of handle g becomes doc
Store(g, doc, how) ==
    IF g = 1
    THEN /\ pdfDoc' = doc
         /\ second' = [second EXCEPT !.applied = Append(@, how),
                         !.spc = AfterReplacement(second.replacements,
                                                  Len(second.applied) + 1)]
    ELSE /\ UNCHANGED pdfDoc
         /\ second' = [second EXCEPT !.pdfDoc = doc,
                         !.applied = Append(@, how),
                         !.spc = AfterReplacement(second.replacements,
                                                  Len(second.applied) + 1)]

SecondApply ==
    /\ second.spc = "patching"
    /\ LET rep == second.replacements[Len(second.applied) + 1]
           isPng == Payload(rep.optimizedImg).fmt = "png"
           doc == Graph(second.graph)
       IN  \/ Store(second.graph, doc, "failed")
           \/ isPng /\ Store(second.graph, EmbedPng(doc, rep), "embedded")
           \/ Store(second.graph, OverwriteInPlace(doc, rep), "overwritten")
    /\ UNCHANGED <<spc, pdfLib, pdfOriginalBytes, pdfImages, srcDoc,
                   matchedImages, replacements, applied, saveCalls, output,
                   downloads>>
    /\ UNCHANGED <<undoVars, viewVars>>
    /\ UNCHANGED <<currentEditingImageIndex, masterCanvas, extracted, edited,
                   currentPdfFile, detached>>
    /\ UNCHANGED <<scanVars, histVars>>

SecondSerialize ==
    /\ second.spc = "saving"
    /\ saveCalls' = saveCalls + 1
    /\ IF currentPdfFile = "null"
       THEN /\ second' = [second EXCEPT !.spc = "failed"]
            /\ UNCHANGED <<output, downloads>>
       ELSE /\ output' = Graph(second.graph)
            /\ downloads' = downloads + 1
            /\ second' = [second EXCEPT !.spc = "done"]
    /\ UNCHANGED <<spc, pdfLib, pdfOriginalBytes, pdfImages, srcDoc, pdfDoc,
                   matchedImages, replacements, applied>>
    /\ UNCHANGED <<undoVars, viewVars>>
    /\ UNCHANGED <<currentEditingImageIndex, masterCanvas, extracted, edited,
                   currentPdfFile, detached>>
    /\ UNCHANGED <<scanVars, histVars>>

\* an invocation of the save handler waits at an await
Suspended ==
    \/ spc \in {"loading", "patching", "saving"}
    \/ second.spc \in {"loading", "patching", "saving"}

\* a session of two records of 200x100, one of them with transparency, of
\* a page that names its 200x100 image under two keys
RaceInit ==
    /\ EditInit
    /\ pdfImages = << GalleryRecord(0, <<Px(200), Px(100)>>, FALSE),
                      GalleryRecord(1, <<Px(200), Px(100)>>, TRUE) >>
    /\ srcDoc = Doc(<<1>>, <<Entry("K1", 1), Entry("K2", 1)>>, <<>>,
                    <<Px(200), Px(50)>>)

\* the two invocations, and the handlers that run while one of them waits
RaceNext ==
    \/ SaveClick
    \/ LoadSettled
    \/ ApplyReplacement
    \/ Serialize
    \/ SecondClick
    \/ SecondLoadSettled
    \/ SecondApply
    \/ SecondSerialize
    \/ Suspended /\ BulkOptimization
    \/ Suspended /\ PreviewApply
    \/ Suspended /\ Upload

RaceSpec == RaceInit /\ [][RaceNext]_vars

Init ==
    /\ ScanInit
    /\ SaveIdle
    /\ objs \in ObjTables
    /\ budget = MaxOps

Next ==
    \/ BeginPage
    \/ OpSave
    \/ OpRestore
    \/ OpTransform
    \/ OpConstructPath
    \/ OpClip
    \/ OpOther
    \/ OpDependency
    \/ OpShadingFill
    \/ OpPaintImageXObject
    \/ OpPaintInlineImageXObject
    \/ OpPaintFormXObjectBegin
    \/ EndPage
    \/ Return

Spec == Init /\ [][Next]_vars

(***************************************************************************)
(* The scan restricted to the graphics-state operators.                    *)
(***************************************************************************)
TrackerInit ==
    /\ ScanInit
    /\ SaveIdle
    /\ objs = [n \in Names |-> Absent]
    /\ budget = MaxTrackOps

TrackerNext ==
    \/ BeginPage
    \/ OpSave
    \/ OpRestore
    \/ OpTransform
    \/ OpConstructPath
    \/ EndPage
    \/ Return

TrackerSpec == TrackerInit /\ [][TrackerNext]_vars

(***************************************************************************)
(* Save on the session of either extraction mode.                          *)
(***************************************************************************)
\* what a record of extractEmbeddedImages was made from
Kinds == {"bitmap", "form", "shading"}

\* the imageName extractEmbeddedImages gives a record of this kind
KindName(kind, page, idx) ==
    CASE kind = "bitmap" -> BitmapName(page, <<"Im", ToString(idx)>>)
      [] kind = "form" -> FormName(page, <<"Fm", ToString(idx)>>)
      [] kind = "shading" -> ShadingName(page, idx)

\* a record of page 1 in 'images' mode
KindRecord(idx, kind, dim, opt) ==
    [SessionRecord(idx, 1, dim, opt) EXCEPT !.imageName = KindName(kind, 1, idx)]

\* the record renderPdfPages pushes for page n: the canvas of the page at
\* scale 2, named `page-${pageNum}`
PageRecord(n) ==
    [index |-> n - 1, width |-> Px(612), height |-> Px(792), pageNum |-> n,
     imageName |-> PageTag(n), isOptimized |-> FALSE,
     optimizedDataURL |-> "null"]

\* the sessions of extractPdfImages(file, mode): 'images' or 'fullpages'
ModeLists ==
    UNION { { [k \in 1..n |-> KindRecord(k - 1, f[k][1], f[k][2], f[k][3])] :
                f \in [1..n -> Kinds \X Dims \X {"null", "jpeg"}] } :
            n \in 1..MaxModeRecords }
    \cup { [k \in 1..n |-> PageRecord(k)] : n \in 1..2 }

ModeInit ==
    /\ ScanInit
    /\ objs = [n \in Names |-> Absent]
    /\ budget = 0
    /\ spc = "idle"
    /\ pdfLib = TRUE
    /\ pdfOriginalBytes = "valid"
    /\ pdfImages \in ModeLists
    /\ srcDoc \in Documents
    /\ pdfDoc = NoDoc
    /\ matchedImages = {}
    /\ replacements = <<>>
    /\ applied = <<>>
    /\ saveCalls = 0
    /\ output = NoDoc
    /\ downloads = 0
    /\ NoEdit
    /\ currentPdfFile = "file"
    /\ extracted = pdfImages

ModeSpec == ModeInit /\ [][SaveNext]_vars

(***************************************************************************)
(* The preview modal: Apply with its awaits, and navigation (editor.js).   *)
(***************************************************************************)
\* what the handlers of the preview modal leave alone
PreviewFrame ==
    UNCHANGED <<scanVars, histVars, spc, pdfLib, pdfOriginalBytes, srcDoc,
                pdfDoc, matchedImages, replacements, applied, saveCalls,
                output, downloads, currentEditingImageIndex, masterCanvas,
                extracted, edited, currentPdfFile, second, detached, undoVars,
                editableImage, canvasImage>>

\* the click handler of previewApplyBtn up to its first await: img is the
\* record of currentPreviewIndex, quality the value of the slider
PreviewApplyClick ==
    /\ applying = <<>>
    /\ currentPreviewIndex < Len(pdfImages)
    /\ \E quality \in Qualities :
          applying' = <<[img |-> pdfImages[currentPreviewIndex + 1],
                         quality |-> quality]>>
    /\ UNCHANGED <<pdfImages, currentPreviewIndex>>
    /\ PreviewFrame

\* navigatePreview(direction), from the buttons or the arrow keys
NavigatePreview ==
    /\ \E direction \in {-1, 1} :
          LET newIndex == currentPreviewIndex + direction
          IN  /\ newIndex >= 0 /\ newIndex < Len(pdfImages)
              /\ currentPreviewIndex' = newIndex
    /\ UNCHANGED <<pdfImages, applying>>
    /\ PreviewFrame

\* the handler after its awaits: the result compressed from img is written
\* into state.pdfImages[state.currentPreviewIndex]
PreviewApplySettled ==
    /\ applying # <<>>
    /\ LET img == applying[1].img
           quality == applying[1].quality
       IN  \E path \in Paths(img) :
             LET result == Optimize(img, path, quality)
             IN  pdfImages' =
                   [pdfImages EXCEPT ![currentPreviewIndex + 1] =
                      [@ EXCEPT !.optimizedDataURL = result.optimizedDataURL,
                                !.isOptimized = TRUE,
                                !.previewQuality = quality,
                                !.width = result.width,
                                !.height = result.height]]
    /\ applying' = <<>>
    /\ UNCHANGED currentPreviewIndex
    /\ PreviewFrame

\* an await of the handler rejects: the catch reports, nothing is written
PreviewApplyFailed ==
    /\ applying # <<>>
    /\ applying' = <<>>
    /\ UNCHANGED <<pdfImages, currentPreviewIndex>>
    /\ PreviewFrame

\* the modal opened on the first record of a session
PreviewInit ==
    /\ ScanInit
    /\ objs = [n \in Names |-> Absent]
    /\ budget = 0
    /\ spc = "idle"
    /\ pdfLib = TRUE
    /\ pdfOriginalBytes = "valid"
    /\ pdfImages \in GalleryLists
    /\ srcDoc = NoDoc
    /\ pdfDoc = NoDoc
    /\ matchedImages = {}
    /\ replacements = <<>>
    /\ applied = <<>>
    /\ saveCalls = 0
    /\ output = NoDoc
    /\ downloads = 0
    /\ NoEdit
    /\ currentPdfFile = "file"
    /\ extracted = pdfImages

PreviewNext ==
    \/ PreviewApplyClick
    \/ NavigatePreview
    \/ PreviewApplySettled
    \/ PreviewApplyFailed

PreviewSpec == PreviewInit /\ [][PreviewNext]_vars

(***************************************************************************)
(* HistoryManager (memory.js): a stack of at most maxSize undo items.      *)
(***************************************************************************)
\* what the methods of a HistoryManager leave alone
HistoryFrame ==
    UNCHANGED <<scanVars, histVars, spc, pdfLib, pdfOriginalBytes, pdfImages,
                srcDoc, pdfDoc, matchedImages, replacements, applied,
                saveCalls, output, downloads, currentEditingImageIndex,
                masterCanvas, extracted, edited, currentPdfFile, second,
                detached, currentPreviewIndex, applying>>

\* a push that makes room only once the stack is over its limit
pushPastLimit(item) ==
    /\ IF Len(stack) > maxSize /\ stack # <<>>
       THEN /\ stack' = Append(Tail(stack), item)
            /\ disposed' = disposed \cup {Head(stack)}
       ELSE /\ stack' = Append(stack, item)
            /\ UNCHANGED disposed
    /\ pushes' = pushes + 1
    /\ unbounded' = Append(unbounded, item)
    /\ UNCHANGED <<maxSize, returned>>
    /\ HistoryFrame

\* push(item): on a full stack the oldest item is shifted out and cleaned
\* up (shift on an empty stack gives undefined, which is not cleaned up)
push(item) ==
    /\ IF Len(stack) >= maxSize /\ stack # <<>>
       THEN /\ stack' = Append(Tail(stack), item)
            /\ disposed' = disposed \cup {Head(stack)}
       ELSE /\ stack' = Append(stack, item)
            /\ UNCHANGED disposed
    /\ pushes' = pushes + 1
    /\ unbounded' = Append(unbounded, item)
    /\ UNCHANGED <<maxSize, returned>>
    /\ HistoryFrame

\* the k-th call of push pushes item k
Push == pushes < MaxPushes /\ push(pushes + 1)

\* pop(): this.stack.pop(), undefined on an empty stack
pop ==
    /\ IF stack # <<>>
       THEN /\ returned' = <<stack[Len(stack)]>>
            /\ stack' = SubSeq(stack, 1, Len(stack) - 1)
            /\ unbounded' = SubSeq(unbounded, 1, Len(unbounded) - 1)
       ELSE /\ returned' = <<>>
            /\ UNCHANGED <<stack, unbounded>>
    /\ UNCHANGED <<maxSize, pushes, disposed>>
    /\ HistoryFrame

\* clear(): every item is popped and cleaned up
clear ==
    /\ stack' = <<>>
    /\ disposed' = disposed \cup { stack[k] : k \in 1..Len(stack) }
    /\ unbounded' = <<>>
    /\ UNCHANGED <<maxSize, pushes, returned>>
    /\ HistoryFrame

HistoryInit ==
    /\ ScanInit
    /\ objs = [n \in Names |-> Absent]
    /\ budget = 0
    /\ spc = "idle"
    /\ pdfLib = TRUE
    /\ pdfOriginalBytes = "null"
    /\ pdfImages = <<>>
    /\ srcDoc = NoDoc
    /\ pdfDoc = NoDoc
    /\ matchedImages = {}
    /\ replacements = <<>>
    /\ applied = <<>>
    /\ saveCalls = 0
    /\ output = NoDoc
    /\ downloads = 0
    /\ NoSession
    /\ currentPdfFile = "null"
    /\ extracted = <<>>
    /\ \E size \in (1..MaxStackSize) \cup {DefaultStackSize} :
          NewHistoryManager(size)

\* no image is in the editor
NoImage == UNCHANGED <<editableImage, canvasImage>>

HistoryNext ==
    \/ NoImage /\ Push
    \/ NoImage /\ pop
    \/ NoImage /\ clear

HistorySpec == HistoryInit /\ [][HistoryNext]_vars

(***************************************************************************)
(* Edits and Undo in the image editor (editor.js).  An image is a number:  *)
(* 0 is the image that was loaded, n the result of the n-th edit.          *)
(***************************************************************************)
OriginalImage == <<0>>

\* getImageState(): width, height and aspectRatio are those of the image
\* the editor shows, dataURL is the encoding of state.masterCanvas
getImageState ==
    [width |-> editableImage[1], dataURL |-> canvasImage[1]]

\* restoreState(item): the image element loads item.dataURL; the
\* assignments to state.masterCanvas go to the parameter named state
restoreState(dataURL) ==
    /\ editableImage' = <<dataURL>>
    /\ UNCHANGED canvasImage

\* the handlers of crop, resize, rotate and flip: pushStateToHistory(),
\* then a new state.masterCanvas that the image element reloads, or a
\* return when there is no cropped canvas
EditImage ==
    /\ pushes < MaxPushes
    /\ push(getImageState)
    /\ \/ /\ canvasImage' = <<pushes + 1>>
          /\ editableImage' = <<pushes + 1>>
       \/ UNCHANGED <<editableImage, canvasImage>>

\* the click handler of undoBtn
Undo ==
    IF stack = <<>>
    THEN UNCHANGED vars
    ELSE /\ pop
         /\ IF Len(stack) > 1
            THEN restoreState(stack[Len(stack) - 1].dataURL)
            ELSE restoreState(OriginalImage[1])

\* handleImageLoad has put an image on the canvas of the editor
UndoInit ==
    /\ ScanInit
    /\ objs = [n \in Names |-> Absent]
    /\ budget = 0
    /\ spc = "idle"
    /\ pdfLib = TRUE
    /\ pdfOriginalBytes = "null"
    /\ pdfImages = <<>>
    /\ srcDoc = NoDoc
    /\ pdfDoc = NoDoc
    /\ matchedImages = {}
    /\ replacements = <<>>
    /\ applied = <<>>
    /\ saveCalls = 0
    /\ output = NoDoc
    /\ downloads = 0
    /\ currentEditingImageIndex = <<>>
    /\ masterCanvas = <<Px(200), Px(100)>>
    /\ edited = <<>>
    /\ second = NoSave
    /\ detached = {}
    /\ currentPreviewIndex = 0
    /\ applying = <<>>
    /\ currentPdfFile = "null"
    /\ extracted = <<>>
    /\ NewHistoryManager(DefaultStackSize)
    /\ editableImage = OriginalImage
    /\ canvasImage = OriginalImage

UndoNext ==
    \/ EditImage
    \/ Undo

UndoSpec == UndoInit /\ [][UndoNext]_vars

(***************************************************************************)
(* The scan over a document that names a bitmap "shading-0".               *)
(***************************************************************************)
NamingInit ==
    /\ ScanInit
    /\ SaveIdle
    /\ objs = [n \in Names \cup {ShadingLikeName} |->
                 IF n = <<"Fm1">> THEN Form(<<0, 0, 4, 3>>)
                                  ELSE Bitmap(300, 200)]
    /\ budget = MaxNameOps

NamingNext ==
    \/ BeginPage
    \/ OpConstructPath
    \/ OpShadingFill
    \/ OpPaintImageXObject
    \/ OpPaintFormXObjectBegin
    \/ EndPage
    \/ Return

NamingSpec == NamingInit /\ [][NamingNext]_vars

(***************************************************************************)
(* The operator scan of pdfProcessor.js: no clip tracker, no shading, no   *)
(* dependency fallback and no set of extracted names.                      *)
(***************************************************************************)
LegacySave ==
    /\ UNCHANGED saveVars
    /\ Scanning
    /\ transformStack' = Append(transformStack, currentTransform)
    /\ Consume("save", <<>>)
    /\ UNCHANGED <<pc, objs, budget, pageNum, currentTransform, clippingStack,
                   currentClipBounds, shadingIndex, lastDependencyName,
                   extractedObjects, allImages, imageIndex, origin, painted>>

LegacyRestore ==
    /\ UNCHANGED saveVars
    /\ Scanning
    /\ LET t == PopTransform(Tracker)
       IN  /\ transformStack' = t.stack
           /\ currentTransform' = t.transform
    /\ Consume("restore", <<>>)
    /\ UNCHANGED <<pc, objs, budget, pageNum, clippingStack, currentClipBounds,
                   shadingIndex, lastDependencyName, extractedObjects, allImages,
                   imageIndex, origin, painted>>

\* the branch of the loop for the three paint opcodes; the name is args[0]
LegacyPaint(code, name) ==
    LET obj == objs[name]
    IN  /\ IF ~ValidName(name) \/ obj.kind = "absent"
           THEN UNCHANGED <<allImages, imageIndex, origin>>
           ELSE IF obj.kind = "bitmap"
           THEN Emit(obj.width, obj.height, BitmapName(pageNum, name))
           ELSE IF code = "paintFormXObjectBegin"
           THEN LET size == FormSize(obj, currentTransform)
                IN  IF size[1] > 1 /\ size[2] > 1
                    THEN Emit(size[1], size[2], FormName(pageNum, name))
                    ELSE UNCHANGED <<allImages, imageIndex, origin>>
           ELSE UNCHANGED <<allImages, imageIndex, origin>>
        /\ CountPaint(name)
        /\ UNCHANGED saveVars
        /\ Consume(code, name)
        /\ UNCHANGED <<pc, objs, budget, pageNum, transformStack, currentTransform,
                       clippingStack, currentClipBounds, shadingIndex,
                       lastDependencyName, extractedObjects>>

LegacyPaintImageXObject ==
    /\ Scanning
    /\ \E n \in {<<"Im1">>, BadName} : LegacyPaint("paintImageXObject", n)

LegacyPaintInlineImageXObject ==
    /\ Scanning
    /\ \E n \in {<<"Im1">>, BadName} : LegacyPaint("paintInlineImageXObject", n)

LegacyPaintFormXObjectBegin ==
    /\ Scanning
    /\ \E n \in Names \cup {NullName} : LegacyPaint("paintFormXObjectBegin", n)

LegacyInit ==
    /\ ScanInit
    /\ SaveIdle
    /\ objs \in { t \in ObjTables : t[<<"Im1">>].kind = "bitmap" }
    /\ budget = MaxOps

LegacyNext ==
    \/ BeginPage
    \/ LegacySave
    \/ LegacyRestore
    \/ OpTransform
    \/ OpOther
    \/ LegacyPaintImageXObject
    \/ LegacyPaintInlineImageXObject
    \/ LegacyPaintFormXObjectBegin
    \/ EndPage
    \/ Return

LegacySpec == LegacyInit /\ [][LegacyNext]_vars

(***************************************************************************)
(* extractEmbeddedImages over pages whose table holds faulty objects and   *)
(* forms one pixel wide.                                                   *)
(***************************************************************************)
FaultTables ==
    { [n \in Names |-> IF n = <<"Im1">> THEN im ELSE fm] :
        im \in {Bitmap(300, 200), Absent, Throwing},
        fm \in {Form(<<0, 0, 4, 3>>), Form(<<0, 0, 1, 3>>), Throwing} }

FaultInit ==
    /\ ScanInit
    /\ SaveIdle
    /\ objs \in FaultTables
    /\ budget = MaxFaultOps

FaultSpec == FaultInit /\ [][Next]_vars

(***************************************************************************)
(* extractEmbeddedImages called twice over the same document.              *)
(***************************************************************************)
RerunInit ==
    /\ FunctionEntry
    /\ SaveIdle
    /\ rerun = [NoRerun EXCEPT !.mode = "record"]
    /\ objs \in { t \in ObjTables : t[<<"Im1">>].kind = "bitmap" }
    /\ budget = MaxRerunOps

\* the operators that make records or that records depend on
RerunNext ==
    \/ BeginPage
    \/ OpTransform
    \/ OpConstructPath
    \/ OpShadingFill
    \/ OpDependency
    \/ OpPaintImageXObject
    \/ OpPaintFormXObjectBegin
    \/ EndPage
    \/ Return
    \/ Rerun

RerunSpec == RerunInit /\ [][RerunNext]_vars

(***************************************************************************)
(* An extraction and its caller, extractImagesFromPDF (editor.js).         *)
(***************************************************************************)
\* pdf.getPage, page.render or page.getOperatorList rejects on page
\* pageNum: the catch of extractEmbeddedImages logs and throws again, and
\* allImages goes out of scope with the function
PageFault ==
    /\ UNCHANGED saveVars
    /\ pc = "loop"
    /\ pageNum <= MaxPages
    /\ pc' = "failed"
    /\ UNCHANGED <<objs, pageNum, i, steps, budget, transformStack,
                   currentTransform, clippingStack, currentClipBounds,
                   shadingIndex, lastDependencyName, extractedObjects, allImages,
                   imageIndex>>
    /\ UNCHANGED histVars

\* state.pdfImages = await extractPdfImages(file, mode): the assignment
\* runs when the extraction returned, and an empty result is thrown as an
\* error after it; a rejected extraction goes to the catch of the change
\* handler, which shows the error
ExtractionSettled ==
    /\ pc \in {"done", "failed"}
    /\ IF pc = "done"
       THEN /\ pdfImages' = allImages
            /\ extracted' = allImages
            /\ pc' = IF allImages = <<>> THEN "rejected" ELSE "shown"
       ELSE /\ pc' = "rejected"
            /\ UNCHANGED <<pdfImages, extracted>>
    /\ UNCHANGED <<spc, pdfLib, pdfOriginalBytes, srcDoc, pdfDoc, matchedImages,
                   replacements, applied, saveCalls, output, downloads,
                   currentEditingImageIndex, masterCanvas, edited,
                   currentPdfFile, second, detached, undoVars, viewVars>>
    /\ UNCHANGED <<objs, pageNum, i, steps, budget, transformStack,
                   currentTransform, clippingStack, currentClipBounds,
                   shadingIndex, lastDependencyName, extractedObjects, allImages,
                   imageIndex>>
    /\ UNCHANGED histVars

\* the session before the upload: none, or the records of an earlier
\* document
EarlierSessions ==
    { <<>>, <<Record(0, 200, 100, 1, BitmapName(1, <<"Im9">>))>> }

\* extractImagesFromPDF has stored the bytes of the new file and calls the
\* extraction
ExtractInit ==
    /\ ScanInit
    /\ objs \in { t \in ObjTables : t[<<"Im1">>].kind = "bitmap" }
    /\ budget = MaxExtractOps
    /\ spc = "idle"
    /\ pdfLib = TRUE
    /\ pdfOriginalBytes = "valid"
    /\ pdfImages \in EarlierSessions
    /\ srcDoc = NoDoc
    /\ pdfDoc = NoDoc
    /\ matchedImages = {}
    /\ replacements = <<>>
    /\ applied = <<>>
    /\ saveCalls = 0
    /\ output = NoDoc
    /\ downloads = 0
    /\ NoEdit
    /\ currentPdfFile = "file"
    /\ extracted = pdfImages

ExtractNext ==
    \/ BeginPage
    \/ PageFault
    \/ OpTransform
    \/ OpDependency
    \/ OpPaintImageXObject
    \/ OpPaintFormXObjectBegin
    \/ EndPage
    \/ Return
    \/ ExtractionSettled

ExtractSpec == ExtractInit /\ [][ExtractNext]_vars

\* every await of the extraction and of its caller settles: a step that
\* can be taken is taken
ExtractLiveSpec == ExtractSpec /\ WF_vars(ExtractNext)

(***************************************************************************)
(* Properties of the operator scan.                                        *)
(***************************************************************************)
Depth == Len(transformStack)

\* each implication "operation => change of depth" is written as
\* "change of depth \/ ~operation"
C1_Step ==
    /\ Depth' = Depth + 1 \/ ~OpSave
    /\ Depth' = Depth - 1 \/ ~(OpRestore /\ Depth > 1)
    /\ Depth' = 1 \/ ~(OpRestore /\ Depth = 1)
    /\ Depth' = Depth
       \/ ~( \/ OpTransform \/ OpConstructPath \/ OpClip \/ OpOther
             \/ OpDependency \/ OpShadingFill \/ OpPaintImageXObject
             \/ OpPaintInlineImageXObject \/ OpPaintFormXObjectBegin )

\* C1: during the scan of a page the depth of the transform stack grows
\* by exactly one on a save, shrinks by exactly one on a restore at a depth
\* above 1, and is left as it is by a restore at depth 1 and by every
\* other operator; so the depth is at least 1 in every reachable state.
C1_StackDepth == [](Depth >= 1) /\ [][C1_Step]_vars

\* a save, the restore that closes it, and a restore at depth 1
C1_Witness == nSave = 1 /\ nRest = 2 /\ Depth = 1 /\ pc = "scan"

RECURSIVE Saves(_, _)
Saves(t, n) == IF n = 0 THEN t ELSE Saves(SaveTracker(t), n - 1)

RECURSIVE Restores(_, _)
Restores(t, n) == IF n = 0 THEN t ELSE Restores(RestoreTracker(t), n - 1)

\* C2: N saves followed by N restores leave the current transform, the
\* transform stack, the current clip bounds and the clip side-stack as
\* they were: from every reachable tracker state for N up to MaxBalance,
\* and for every run of N consecutive saves and N consecutive restores
\* the scan has consumed.
C2_StackBalance ==
    /\ \A n \in 0..MaxBalance : Restores(Saves(Tracker, n), n) = Tracker
    /\ (nRest >= 1 /\ nRest <= nSave) => expect = <<Tracker>>

\* two saves and two restores consumed from a tracker state with clip
\* bounds and a transform
C2_Witness ==
    /\ nSave = 2 /\ nRest = 2
    /\ currentClipBounds # NoClip
    /\ currentTransform # Identity

\* the product of section 4.1, component by component
C3_Product(m, cur) ==
    << m[1] * cur[1] + m[2] * cur[3],
       m[1] * cur[2] + m[2] * cur[4],
       m[3] * cur[1] + m[4] * cur[3],
       m[3] * cur[2] + m[4] * cur[4],
       m[5] * cur[1] + m[6] * cur[3] + cur[5],
       m[5] * cur[2] + m[6] * cur[4] + cur[6] >>

\* (a,b,c,d,e,f) as the 3x3 matrix of an affine map on row vectors
Mat(m) == << <<m[1], m[2], 0>>, <<m[3], m[4], 0>>, <<m[5], m[6], 1>> >>

MatMul(X, Y) ==
    [r \in 1..3 |-> [c \in 1..3 |->
        X[r][1] * Y[1][c] + X[r][2] * Y[2][c] + X[r][3] * Y[3][c]]]

C3_Step ==
    \A m \in Matrices :
        OpTransformWith(m) =>
            /\ currentTransform' = C3_Product(m, currentTransform)
            /\ Mat(currentTransform') = MatMul(Mat(m), Mat(currentTransform))
            /\ transformStack' =
                 [transformStack EXCEPT ![Depth] = C3_Product(m, currentTransform)]

C3_Chain ==
    (Len(chain) = 2 /\ pc = "scan") =>
        /\ currentTransform = C3_Product(chain[2], chain[1])
        /\ Mat(currentTransform) = MatMul(Mat(chain[2]), Mat(chain[1]))

\* C3: a transform with operand m replaces the top of the stack by the
\* product of section 4.1 of m and the current matrix and changes no lower
\* frame; two transforms A then B from identity give B composed onto A,
\* on all six components.
C3_TransformComposition == []C3_Chain /\ [][C3_Step]_vars

\* two transforms from identity whose order matters
C3_Witness ==
    /\ Len(chain) = 2 /\ pc = "scan"
    /\ C3_Product(chain[2], chain[1]) # C3_Product(chain[1], chain[2])

\* the records of the current page that come from the object of this name
RecordsOf(name) ==
    { k \in 1..Len(allImages) :
        /\ allImages[k].pageNum = pageNum
        /\ allImages[k].imageName \in
             { BitmapName(pageNum, name), FormName(pageNum, name) } }

\* C4: when the same name is painted twice or more on a page, exactly one
\* record is produced for that name on that page.
C4_OneRecordPerName ==
    \A n \in Names :
        (pc = "scan" /\ painted[n] >= 2) => Cardinality(RecordsOf(n)) = 1

C5_Inv ==
    /\ imageIndex = Len(allImages)
    /\ Len(origin) = Len(allImages)
    /\ \A k \in 1..Len(allImages) :
          /\ allImages[k].index = k - 1
          /\ allImages[k].pageNum = origin[k][1]
    /\ \A k \in 1..(Len(allImages) - 1) :
          \/ origin[k][1] < origin[k + 1][1]
          \/ origin[k][1] = origin[k + 1][1] /\ origin[k][2] < origin[k + 1][2]

C5_Step ==
    \/ allImages' = allImages
    \/ /\ Len(allImages') = Len(allImages) + 1
       /\ SubSeq(allImages', 1, Len(allImages)) = allImages
       /\ allImages'[Len(allImages')].index = imageIndex

\* C5: each extraction appends exactly one record with the next index:
\* the k-th record (from 0) has index k, across pages, and the records are
\* in page order and within a page in the order of their operators.
C5_SequentialIndex == []C5_Inv /\ [][C5_Step]_vars

\* a bitmap, a form and a shading record over two pages
C5_Witness ==
    /\ pc = "done"
    /\ Len(allImages) = 3
    /\ allImages[1].pageNum = 1 /\ allImages[3].pageNum = 2
    /\ \E k \in 1..3 : allImages[k].imageName[3] = "form"
    /\ \E k \in 1..3 : allImages[k].imageName[3] = "shading"

(***************************************************************************)
(* Properties of the reconstruction.                                       *)
(***************************************************************************)
Matched == spc \in {"patching", "saving", "done"}

\* C6: no record and no original XObject is in more than one planned
\* replacement.
C6_PlanExclusive ==
    \A a, b \in 1..Len(replacements) :
        a # b =>
            /\ ImgKey(replacements[a].optimizedImg)
                 # ImgKey(replacements[b].optimizedImg)
            /\ replacements[a].xObjRef # replacements[b].xObjRef

\* the entries of page p of the original document that name an image
ImageEntries(p) ==
    IF srcDoc.pages[p] = 0 THEN <<>>
    ELSE SelectSeq(srcDoc.dicts[srcDoc.pages[p]],
                   LAMBDA e : srcDoc.objects[e.ref].subtype = "Image")

DimOf(x) == <<x.width, x.height>>

\* the image XObjects of page p have pairwise distinct dimensions and the
\* records of page p have the same set of dimensions
C7_Case(p) ==
    LET es == ImageEntries(p)
        rs == ImagesByPage(pdfImages, p)
    IN  /\ Len(es) >= 1
        /\ \A a, b \in 1..Len(es) :
              a # b => DimOf(srcDoc.objects[es[a].ref]) # DimOf(srcDoc.objects[es[b].ref])
        /\ { DimOf(srcDoc.objects[es[a].ref]) : a \in 1..Len(es) }
             = { DimOf(rs[b]) : b \in 1..Len(rs) }

\* C7: image XObjects of one page with pairwise distinct dimensions and
\* records of that page with the same dimensions are all paired, each
\* XObject with a record of its own page and dimensions, in every order
\* of the records and of the dictionary entries.
C7_DistinctDimsPaired ==
    Matched =>
        \A p \in 1..Len(srcDoc.pages) :
            C7_Case(p) =>
                \A a \in 1..Len(ImageEntries(p)) :
                    \E k \in 1..Len(replacements) :
                        LET rep == replacements[k]
                            e == ImageEntries(p)[a]
                        IN  /\ rep.pageNum = p
                            /\ rep.xObjKeyName = e.key
                            /\ rep.xObjRef = e.ref
                            /\ rep.optimizedImg.pageNum = p
                            /\ DimOf(rep.optimizedImg) = DimOf(srcDoc.objects[e.ref])

\* two XObjects of page 1 paired with records listed in the other order
C7_Witness ==
    /\ Matched
    /\ C7_Case(1)
    /\ Len(ImageEntries(1)) = 2
    /\ Len(replacements) = 2
    /\ replacements[1].optimizedImg.index > replacements[2].optimizedImg.index

PlannedRefs == { replacements[k].xObjRef : k \in 1..Len(replacements) }

\* the original image XObjects the plan pairs with no record
Unmatched ==
    { r \in 1..Len(srcDoc.objects) :
        srcDoc.objects[r].subtype = "Image" /\ r \notin PlannedRefs }

\* object r and the page entries naming it are in doc as in the original
Untouched(doc, r) ==
    /\ doc.objects[r] = srcDoc.objects[r]
    /\ \A p \in 1..Len(srcDoc.pages) :
          \A a \in 1..Len(ImageEntries(p)) :
              ImageEntries(p)[a].ref = r =>
                  \E b \in 1..Len(doc.dicts[doc.pages[p]]) :
                      doc.dicts[doc.pages[p]][b] = ImageEntries(p)[a]

\* C8: an original image XObject the plan does not pair keeps its
\* dictionary, its bytes and the page entries naming it, while the
\* patcher runs and in the saved document.
C8_UnmatchedUntouched ==
    /\ Matched => \A r \in Unmatched : Untouched(pdfDoc, r)
    /\ spc = "done" => \A r \in Unmatched : Untouched(output, r)

\* a saved document with an embedded replacement and an unmatched image
\* XObject that a page names
C8_Witness ==
    /\ spc = "done"
    /\ \E k \in 1..Len(applied) : applied[k] = "embedded"
    /\ \E r \in Unmatched : \E p \in 1..Len(srcDoc.pages) :
          \E a \in 1..Len(ImageEntries(p)) : ImageEntries(p)[a].ref = r

\* the object the entry key of page p resolves to in doc
Resolve(doc, p, key) ==
    LET es == doc.dicts[doc.pages[p]]
        b == CHOOSE b \in 1..Len(es) : es[b].key = key
    IN  doc.objects[es[b].ref]

\* C9: when a planned replacement throws, every other planned replacement
\* is still attempted and the document is serialized exactly once; the
\* output holds every image that was replaced and the original image of
\* the replacement that failed.
C9_BestEffortSave ==
    (spc = "done" /\ \E k \in 1..Len(applied) : applied[k] = "failed") =>
        /\ Len(applied) = Len(replacements)
        /\ saveCalls = 1
        /\ \A k \in 1..Len(replacements) :
              LET rep == replacements[k]
                  obj == Resolve(output, rep.pageNum, rep.xObjKeyName)
              IN  IF applied[k] = "failed"
                  THEN obj = srcDoc.objects[rep.xObjRef]
                  ELSE obj.content = Payload(rep.optimizedImg)

GateFault ==
    \/ ~pdfLib
    \/ pdfOriginalBytes \in {"null", "empty", "corrupt"}

C10_Inv ==
    GateFault =>
        /\ spc \in {"idle", "loading", "failed"}
        /\ pdfDoc = NoDoc
        /\ matchedImages = {}
        /\ replacements = <<>>
        /\ applied = <<>>
        /\ saveCalls = 0
        /\ output = NoDoc
        /\ downloads = 0

C10_Step ==
    /\ pdfImages' = pdfImages
    /\ pdfOriginalBytes' = pdfOriginalBytes
    /\ (GateFault /\ spc' # spc /\ spc' # "loading") => spc' = "failed"

\* C10: with the source bytes missing or empty, the document not loadable
\* or the patching library absent, the save ends in the error state with
\* no matching, no replacement applied, nothing serialized or downloaded,
\* and the records and the stored bytes as they were.
C10_FailFast == []C10_Inv /\ [][C10_Step]_vars

\* a load that was rejected for a session whose plan would not be empty
C10_Witness ==
    /\ spc = "failed"
    /\ pdfOriginalBytes = "corrupt"
    /\ Len(BuildPlan(srcDoc, pdfImages).plan) > 0

(***************************************************************************)
(* Faults of single elements and of pages.                                 *)
(***************************************************************************)
PaintCodes ==
    {"paintImageXObject", "paintInlineImageXObject", "paintFormXObjectBegin"}

\* the operand resolves to an invalid name, to nothing in page.objs, or to
\* an object whose extraction throws
FaultyPaint(code, n) ==
    LET final == ActualImageName(code, n)
    IN  IF ValidName(final)
        THEN objs[final].kind \in {"absent", "throwing"}
        ELSE TRUE

C11_Step ==
    \A code \in PaintCodes : \A n \in Names \cup {NullName, BadName} :
        (Scanning /\ FaultyPaint(code, n) /\ Paint(code, n)) =>
            /\ allImages' = allImages
            /\ imageIndex' = imageIndex
            /\ Tracker' = Tracker
            /\ shadingIndex' = shadingIndex
            /\ extractedObjects' = extractedObjects
            /\ pc' = "scan" /\ pageNum' = pageNum /\ i' = i + 1

\* C11: a paint operator with an invalid name, with a name page.objs does
\* not hold, or whose extraction throws, adds no record, leaves the records
\* emitted so far and the transform and clip tracker as they are, and the
\* scan goes on with the next operator of the same page.
C11_ElementFaultSkipped == [][C11_Step]_vars

\* the first operator painted a throwing Im1, the second one emitted the
\* record of Fm1
C11_Witness ==
    /\ pc = "scan" /\ i = 2
    /\ objs[<<"Im1">>].kind = "throwing"
    /\ painted[<<"Im1">>] = 1 /\ painted[<<"Fm1">>] = 1
    /\ Len(allImages) = 1
    /\ origin[1] = <<pageNum, 1>>

\* width and height a form paint with this operand would extract
PaintedFormSize(final) ==
    LET box == objs[final].bbox
        a == currentTransform[1]
        d == currentTransform[4]
    IN  IF Len(box) >= 4
        THEN <<Abs(a) * Abs(box[3] - box[1]), Abs(d) * Abs(box[4] - box[2])>>
        ELSE <<Abs(a) * DefaultFormSize, Abs(d) * DefaultFormSize>>

C12_Step ==
    \A n \in Names \cup {NullName} :
        LET final == ActualImageName("paintFormXObjectBegin", n)
        IN  ( /\ Scanning
              /\ ValidName(final)
              /\ objs[final].kind = "form"
              /\ \/ PaintedFormSize(final)[1] <= 1
                 \/ PaintedFormSize(final)[2] <= 1
              /\ Paint("paintFormXObjectBegin", n) )
            => /\ allImages' = allImages
               /\ imageIndex' = imageIndex
               /\ pc' = "scan" /\ i' = i + 1

C12_Inv ==
    \A k \in 1..Len(allImages) :
        allImages[k].imageName[3] = "form" =>
            allImages[k].width > 1 /\ allImages[k].height > 1

\* C12: a form paint whose transformed width |a| * BBox width or height
\* |d| * BBox height is at most 1 adds no record, does not advance the
\* index counter and does not stop the scan; every form record is more
\* than 1 pixel wide and high.
C12_DegenerateFormSkipped == []C12_Inv /\ [][C12_Step]_vars

\* a form exactly one pixel wide was skipped: no record and index 0 after
\* the first operator of the document
C12_Witness ==
    /\ note = "degenerate"
    /\ pc = "scan" /\ pageNum = 1 /\ i = 1
    /\ currentTransform = Identity
    /\ objs[<<"Fm1">>].bbox = <<0, 0, 1, 3>>
    /\ allImages = <<>> /\ imageIndex = 0

(***************************************************************************)
(* The end-to-end scenario: one bitmap Im1 of 300x200 painted once on      *)
(* page 1, no other object painted and no shading filled.                  *)
(***************************************************************************)
C13_Scenario ==
    /\ pc = "scan" /\ pageNum = 1
    /\ objs[<<"Im1">>] = Bitmap(300, 200)
    /\ painted[<<"Im1">>] = 1
    /\ painted[<<"Fm1">>] = 0
    /\ shadingIndex = 0

C13_OneRecord ==
    /\ Len(allImages) = 1
    /\ allImages[1].index = 0
    /\ allImages[1].pageNum = 1
    /\ allImages[1].width = 300
    /\ allImages[1].height = 200

\* C13 as stated: the scenario yields exactly one record, of page 1,
\* 300 wide and 200 high, whose name is "Im1".
C13_NameIsIm1 ==
    C13_Scenario => (C13_OneRecord /\ allImages[1].imageName = <<"Im1">>)

\* C13 as the code has it: the scenario yields exactly one record, of
\* page 1, 300 wide and 200 high, whose name is "page-1-Im1", the name of
\* the object after the tag of its page.
C13_NameIsPageTagged ==
    C13_Scenario =>
        (C13_OneRecord /\ allImages[1].imageName = <<"page", "1", "Im1">>)

\* Im1 was painted by the first operator and other operators followed
C13_Witness ==
    /\ C13_Scenario
    /\ i = 3
    /\ Len(allImages) = 1
    /\ origin[1] = <<1, 0>>

SameSize(k) ==
    /\ pdfImages'[k].width = pdfImages[k].width
    /\ pdfImages'[k].height = pdfImages[k].height

\* C15: the width and the height of a record never change after
\* extraction except through a resize edit, which sets the optimized data
\* in the same step; bulk optimization and preview Apply leave the width
\* and the height of every record as extraction set them.
C15_Step ==
    /\ Len(pdfImages') = Len(pdfImages) =>
          \A k \in 1..Len(pdfImages) : SameSize(k)
    /\ edited' # edited => edited'[1].optimizedDataURL # "null"

C15_DimensionsStable == [][C15_Step]_vars

\* C16: bulk optimization, preview Apply, opening an image in the editor
\* and returning to the gallery, and a save leave the collection with the
\* same records in the same order: only the optimization fields, the width
\* and the height of a record may differ after the step.
RecordIdentity(img) == <<img.index, img.pageNum, img.imageName, img.dataURL>>

C16_Step ==
    \/ ClearAllClick
    \/ /\ Len(pdfImages') = Len(pdfImages)
       /\ \A k \in 1..Len(pdfImages) :
             RecordIdentity(pdfImages'[k]) = RecordIdentity(pdfImages[k])

C16_RecordsKept == [][C16_Step]_vars

(***************************************************************************)
(* A page fault during an extraction.                                      *)
(***************************************************************************)
\* C17: when a page cannot be rendered or its operator list cannot be
\* obtained, the extraction is reported as failed and the records
\* collected from the pages before it stay valid and usable by the caller:
\* the caller holds each of them after the fault.
C17_FaultKeepsRecords ==
    pc = "rejected" =>
        \A k \in 1..Len(allImages) :
            k <= Len(pdfImages) /\ pdfImages[k] = allImages[k]

(***************************************************************************)
(* The two ways the patcher applies a replacement.                         *)
(***************************************************************************)
\* the replacement the step applies, and how the step ended
Current == replacements[Len(applied) + 1]

Applies(how) ==
    /\ spc = "patching"
    /\ applied' = Append(applied, how)

\* the entries of dictionary d that carry key
EntriesOf(doc, d, key) ==
    { e \in 1..Len(doc.dicts[d]) : doc.dicts[d][e].key = key }

\* C18 (the step): a replacement with a PNG payload that is embedded adds
\* the raster as one new object, points the entry of the same key in the
\* dictionary of the same page at it, and leaves every object the document
\* had, the replaced one included, and every other entry as they were.
C18_Step ==
    Applies("embedded") =>
        LET d == pdfDoc.pages[Current.pageNum]
            new == Len(pdfDoc.objects) + 1
        IN  /\ Payload(Current.optimizedImg).fmt = "png"
            /\ Len(pdfDoc'.objects) = new
            /\ pdfDoc'.objects[new].content = Payload(Current.optimizedImg)
            /\ \A ref \in 1..Len(pdfDoc.objects) :
                  pdfDoc'.objects[ref] = pdfDoc.objects[ref]
            /\ pdfDoc'.pages = pdfDoc.pages
            /\ \A o \in 1..Len(pdfDoc.dicts) :
                  /\ Len(pdfDoc'.dicts[o]) = Len(pdfDoc.dicts[o])
                  /\ \A e \in 1..Len(pdfDoc.dicts[o]) :
                        IF o = d /\ pdfDoc.dicts[o][e].key = Current.xObjKeyName
                        THEN pdfDoc'.dicts[o][e] = Entry(Current.xObjKeyName, new)
                        ELSE pdfDoc'.dicts[o][e] = pdfDoc.dicts[o][e]
            /\ EntriesOf(pdfDoc, d, Current.xObjKeyName) # {}

\* C18 (the saved document): for every replacement that was embedded, the
\* key it was planned for resolves, on its page, to an object that pdfDoc
\* did not have when it was loaded and that embedPng made.
C18_Saved ==
    spc = "done" =>
        \A k \in 1..Len(applied) :
            applied[k] = "embedded" =>
                LET d == output.pages[replacements[k].pageNum]
                    es == EntriesOf(output, d, replacements[k].xObjKeyName)
                IN  /\ es # {}
                    /\ \A e \in es :
                          /\ output.dicts[d][e].ref > Len(srcDoc.objects)
                          /\ output.objects[output.dicts[d][e].ref].filter
                                = "embedPng"

C19_Step ==
    Applies("overwritten") =>
        /\ pdfDoc'.pages = pdfDoc.pages
        /\ pdfDoc'.dicts = pdfDoc.dicts
        /\ Len(pdfDoc'.objects) = Len(pdfDoc.objects)
        /\ \A ref \in 1..Len(pdfDoc.objects) :
              IF ref = Current.xObjRef
              THEN /\ pdfDoc'.objects[ref].content = Payload(Current.optimizedImg)
                   /\ pdfDoc'.objects[ref].width = Current.width
                   /\ pdfDoc'.objects[ref].height = Current.height
              ELSE pdfDoc'.objects[ref] = pdfDoc.objects[ref]

C19_InPlace == [][C19_Step]_vars

\* a JPEG payload and a PNG payload were both written in place, into
\* object 1, which the page names under two keys
C19_Witness ==
    /\ spc = "done"
    /\ applied = <<"overwritten", "overwritten">>
    /\ replacements[1].xObjRef = 1
    /\ replacements[2].xObjRef = 1
    /\ Payload(replacements[1].optimizedImg).fmt = "jpeg"
    /\ Payload(replacements[2].optimizedImg).fmt = "png"
    /\ output.dicts[1] = <<Entry("K1", 1), Entry("K2", 1)>>

(***************************************************************************)
(* The owner of a destination document.                                    *)
(***************************************************************************)
\* what one step of a pass makes of graph doc: the next replacement of the
\* plan, embedded or written in place
Patched(doc, plan, done) ==
    { EmbedPng(doc, plan[done + 1]), OverwriteInPlace(doc, plan[done + 1]) }

\* C20 (the step): the graph a save invocation loaded changes only in a
\* step of that invocation, which is its load or the next replacement of
\* its own plan, taken in the order of the plan; a step of the other
\* invocation, of bulk optimization, of preview Apply or of an upload
\* leaves it as it is.
C20_Step ==
    /\ pdfDoc' # pdfDoc =>
          /\ second.applied' = second.applied
          /\ second.spc' = second.spc
          /\ \/ spc = "loading" /\ pdfDoc' = srcDoc
             \/ /\ spc = "patching"
                /\ Len(applied') = Len(applied) + 1
                /\ replacements' = replacements
                /\ pdfDoc' \in Patched(pdfDoc, replacements, Len(applied))
    /\ second.pdfDoc' # second.pdfDoc =>
          /\ applied' = applied
          /\ spc' = spc
          /\ \/ second.spc = "loading" /\ second.pdfDoc' = srcDoc
             \/ /\ second.spc = "patching"
                /\ Len(second.applied') = Len(second.applied) + 1
                /\ second.replacements' = second.replacements
                /\ second.pdfDoc' \in Patched(second.pdfDoc, second.replacements,
                                              Len(second.applied))

\* C20 (the owner): the second invocation holds a graph of its own, never
\* the graph of the first.
C20_Inv == second.graph \in {0, 2}

Before(a, b) == a[1] < b[1] \/ (a[1] = b[1] /\ a[2] < b[2])

\* the records are in the order of the operators that emitted them
C21_Order ==
    \A k \in 1..(Len(origin) - 1) : Before(origin[k], origin[k + 1])

\* an operator is consumed at the index after the one before it, on the
\* page being scanned; the index starts again at 0 with a page; the pages
\* follow each other; a record comes from the operator just consumed, and
\* a transform multiplies into the transform the operators before left
C21_Step ==
    /\ steps' # steps =>
          /\ pc = "scan" /\ pc' = "scan"
          /\ steps' = steps + 1
          /\ i' = i + 1
          /\ pageNum' = pageNum
    /\ (i' # i /\ steps' = steps) => i' = 0
    /\ pageNum' # pageNum => (pageNum' = pageNum + 1 /\ pc = "scan")
    /\ Len(origin') # Len(origin) =>
          (steps' # steps /\ origin' = Append(origin, <<pageNum, i>>))
    /\ currentTransform' # currentTransform =>
          \/ steps' = steps
          \/ Len(transformStack') < Len(transformStack)
          \/ \E m \in Matrices :
                currentTransform' = MultiplyTransform(m, currentTransform)

C21_Terminated == pc \in {"done", "failed"}

\* C21: the scan of a page consumes its operators one by one in the order
\* of the list, each on the state the operators before it left, and the
\* records follow that order; an extraction over finitely many operators
\* and pages comes to its end, returning the records or throwing.
C21_LinearScan == []C21_Order /\ [][C21_Step]_vars /\ <>C21_Terminated

\* the extraction returned after it scanned operators on both pages and
\* emitted records on both
C21_Witness ==
    /\ pc = "done"
    /\ Len(origin) = 2
    /\ origin[1][1] = 1
    /\ origin[2][1] = 2
    /\ origin[2][2] > 0

(***************************************************************************)
(* The bounds a path construction leaves.                                  *)
(***************************************************************************)
Least(S) == CHOOSE x \in S : \A y \in S : x <= y
Greatest(S) == CHOOSE x \in S : \A y \in S : x >= y

\* the positions of pathData that hold an x, and those whose x has a y
XPositions(pathData) == { j \in 1..Len(pathData) : j % 2 = 1 }
PairPositions(pathData) == { j \in XPositions(pathData) : j + 1 <= Len(pathData) }

\* {minX, minY, maxX, maxY} over the x of the positions at and the y of
\* the pairs
BoundsOver(pathData, at) ==
    << Least({ pathData[j] : j \in at }),
       Least({ pathData[j + 1] : j \in PairPositions(pathData) }),
       Greatest({ pathData[j] : j \in at }),
       Greatest({ pathData[j + 1] : j \in PairPositions(pathData) }) >>

\* C22 as stated: a list of at least 4 numbers sets the bounds to the
\* minima and maxima over its coordinate pairs; a shorter or missing list
\* leaves the bounds as they are.
C22_BoundsOverPairs ==
    \A pathData \in PathDatas :
        ConstructPathTracker(Tracker, pathData).clip =
            IF Len(pathData) >= 4
            THEN BoundsOver(pathData, PairPositions(pathData))
            ELSE currentClipBounds

\* C22: a list of at least 4 numbers sets the bounds to the minima and
\* maxima of the x over every even offset of the list, the x of a last
\* number without a y included, and of the y over the coordinate pairs, so
\* that minX <= maxX and minY <= maxY; a shorter or missing list leaves the
\* bounds as they are; nothing else of the tracker changes.
C22_BoundsOverOffsets ==
    \A pathData \in PathDatas :
        LET t == ConstructPathTracker(Tracker, pathData)
        IN  /\ t.clip = IF Len(pathData) >= 4
                        THEN BoundsOver(pathData, XPositions(pathData))
                        ELSE currentClipBounds
            /\ Len(pathData) >= 4 => (t.clip[1] <= t.clip[3] /\ t.clip[2] <= t.clip[4])
            /\ t.transform = currentTransform
            /\ t.stack = transformStack
            /\ t.clipStack = clippingStack

\* inside a save, the scan has consumed the list of two points and a
\* last x
C22_Witness ==
    /\ currentClipBounds = <<0, 0, 7, 3>>
    /\ Len(clippingStack) = 1

(***************************************************************************)
(* C23: a restore gives back the state of its save.                        *)
(***************************************************************************)
\* the restore just consumed closed a save of this page
ClosedASave == expect # <<>>

\* C23: after a restore that matches an earlier save of the page, the
\* current transform and the current clip bounds (and both stacks) are the
\* ones the tracker held immediately before that save, whichever
\* transforms, path constructions and nested balanced save/restore pairs
\* were consumed in between.
C23_RestoreGivesBack ==
    ClosedASave =>
        /\ currentTransform = expect[1].transform
        /\ currentClipBounds = expect[1].clip
        /\ transformStack = expect[1].stack
        /\ clippingStack = expect[1].clipStack

\* a path construction, then save, save, a transform or a path
\* construction, restore, restore: the second restore closes the outer
\* save, whose clip bounds were set
C23_Witness ==
    /\ ClosedASave
    /\ nRest = 2 /\ nSave = 0
    /\ Len(marks) = 0
    /\ expect[1].clip # NoClip

(***************************************************************************)
(* C24: the name a paint operator works with.                              *)
(***************************************************************************)
PaintOperands == Names \cup {NullName, BadName}

\* the name the claim gives a paint operator with this operand
C24_Used(code, n) ==
    IF code = "paintFormXObjectBegin" /\ n = NullName
    THEN lastDependencyName
    ELSE n

\* what a paint step shows of the name it worked with: the object it
\* counted and marked as extracted and the name of the record it emitted
C24_PaintStep ==
    \A code \in PaintCodes : \A n \in PaintOperands :
        (Scanning /\ Paint(code, n)) =>
            LET used == C24_Used(code, n)
            IN  /\ \A x \in Names : painted'[x] # painted[x] => x = used
                /\ extractedObjects' \subseteq extractedObjects \cup {used}
                /\ Len(allImages') > Len(allImages) =>
                      /\ used \in Names
                      /\ allImages'[Len(allImages')].imageName \in
                            {BitmapName(pageNum, used), FormName(pageNum, used)}
                /\ lastDependencyName' = lastDependencyName

\* the remembered dependency is the operand of the last dependency
\* operator of the page: a step changes it either to a name, consuming
\* one operator of the page, or to null, on leaving the page
C24_DependencyStep ==
    lastDependencyName' # lastDependencyName =>
        \/ /\ pc = "scan" /\ pc' = "scan"
           /\ pageNum' = pageNum /\ i' = i + 1
           /\ lastDependencyName' \in Names
           /\ allImages' = allImages
        \/ /\ pc' # "scan"
           /\ lastDependencyName' = NullName

\* a page starts with no dependency remembered
C24_FreshPage == (pc = "scan" /\ i = 0) => lastDependencyName = NullName

\* C24: a form paint with a null name works with the operand of the most
\* recent dependency operator of the same page (none at the start of a
\* page), a form paint with a name works with that name, and an image or
\* inline-image paint works with its own operand only.
C24_FormNameFallback ==
    []C24_FreshPage /\ [][C24_PaintStep /\ C24_DependencyStep]_vars

\* on the second page a dependency on Fm1 and then a paint have left the
\* form record of Fm1
C24_Witness ==
    /\ pc = "scan" /\ pageNum = 2 /\ i = 2
    /\ lastDependencyName = <<"Fm1">>
    /\ Len(allImages) = 1
    /\ allImages[1].imageName = FormName(2, <<"Fm1">>)
    /\ origin[1] = <<2, 1>>

(***************************************************************************)
(* C25: a shading fill without clip bounds.                                *)
(***************************************************************************)
C25_Step ==
    \/ ~(currentClipBounds = NoClip /\ OpShadingFill)
    \/ /\ allImages' = allImages
       /\ shadingIndex' = shadingIndex
       /\ imageIndex' = imageIndex
       /\ Tracker' = Tracker
       /\ pc' = "scan" /\ pageNum' = pageNum /\ i' = i + 1

\* C25: a shadingFill consumed while the page has no current clip bounds
\* emits no record, advances neither the shading counter of the page nor
\* the index counter of the document, and raises nothing: the scan goes
\* on with the next operator of the page.
C25_ShadingWithoutClipSkipped == [][C25_Step]_vars

\* the first operator of the first page was a shadingFill and no clip
\* bounds were set: the run has recorded it and has no record
C25_Witness ==
    /\ rerun.mode = "record"
    /\ rerun.log = << <<"shadingFill", <<>>>> >>
    /\ pc = "scan" /\ pageNum = 1 /\ i = 1
    /\ currentClipBounds = NoClip
    /\ allImages = <<>> /\ shadingIndex = 0 /\ imageIndex = 0

(***************************************************************************)
(* C26: the names of the shading records.                                  *)
(***************************************************************************)
\* the step has emitted a record
Emitted == Len(allImages') = Len(allImages) + 1

NewName == allImages'[Len(allImages')].imageName

\* the names of the records emitted so far
NamesSoFar == { allImages[j].imageName : j \in 1..Len(allImages) }

\* the names the claim gives the shadings emitted so far on this page
ShadingNamesOfPage == { ShadingName(pageNum, k) : k \in 0..(shadingIndex - 1) }

\* C26: the k-th shading record of page n is named page-n-shading-k, k
\* counting the shading records of that page from 0; the name of a
\* shading record is the name of no record emitted before it, and no
\* bitmap or form record is emitted under the name of a shading record of
\* its page, whatever the objects of the document are named.
C26_Step ==
    /\ (Emitted /\ shadingIndex' = shadingIndex + 1) =>
          /\ NewName = <<"page", ToString(pageNum), "shading",
                         ToString(shadingIndex)>>
          /\ NewName \notin NamesSoFar
    /\ (Emitted /\ shadingIndex' = shadingIndex) =>
          NewName \notin ShadingNamesOfPage
    /\ shadingIndex' # shadingIndex =>
          (shadingIndex' = 0 \/ (Emitted /\ shadingIndex' = shadingIndex + 1))

C26_ShadingNamespace == [][C26_Step]_vars

(***************************************************************************)
(* C27: the stack of a HistoryManager.                                     *)
(***************************************************************************)
\* the items of s that were not cleaned up, in the order of s
Kept(s) ==
    LET keep(x) == x \notin disposed
    IN  SelectSeq(s, keep)

\* s is the end of t
Suffix(s, t) ==
    /\ Len(s) <= Len(t)
    /\ s = SubSeq(t, Len(t) - Len(s) + 1, Len(t))

C27_Stack ==
    /\ maxSize >= 1
    /\ Len(stack) <= maxSize
    /\ stack = Kept(unbounded)
    /\ Suffix(stack, unbounded)
    /\ \A k \in 1..(Len(stack) - 1) : stack[k] < stack[k + 1]

C27_Step ==
    /\ pop =>
          IF stack # <<>>
          THEN /\ returned' = <<unbounded[Len(unbounded)]>>
               /\ stack' = SubSeq(stack, 1, Len(stack) - 1)
               /\ disposed' = disposed
          ELSE returned' = <<>> /\ stack' = stack
    /\ Push =>
          /\ stack'[Len(stack')] = pushes + 1
          /\ IF Len(stack) = maxSize
             THEN /\ stack' = Append(Tail(stack), pushes + 1)
                  /\ disposed' = disposed \cup {stack[1]}
             ELSE /\ stack' = Append(stack, pushes + 1)
                  /\ disposed' = disposed
    /\ clear => stack' = <<>>

\* C27: on a HistoryManager with maxSize >= 1 the stack never holds more
\* than maxSize items; after any pushes, pops and clears it holds the
\* items pushed and neither popped nor cleared, the most recent ones, in
\* the order of the pushes, less the oldest ones that pushes onto a full
\* stack have discarded, one each; a pop returns the most recently pushed
\* item that remains.
C27_BoundedHistory == []C27_Stack /\ [][C27_Step]_vars

\* with maxSize 2: three pushes, the third one discarding item 1, and a
\* pop that returned item 3
C27_Witness ==
    /\ maxSize = 2
    /\ pushes = 3
    /\ stack = <<2>>
    /\ returned = <<3>>
    /\ disposed = {1}

(***************************************************************************)
(* C28: the format of the optimized data.                                  *)
(***************************************************************************)
\* the extracted raster of the record has a pixel with alpha below 255
Transparent(img) == img.dataURL.alpha

PlanBuilt == spc \in {"patching", "saving"} /\ applied = <<>>

\* the image entries of the original document as the matcher visits them:
\* <<page, position among the image entries of the page>>
Visits ==
    UNION { { <<p, a>> : a \in 1..Len(ImageEntries(p)) } :
              p \in 1..Len(srcDoc.pages) }

Earlier(v, w) == v[1] < w[1] \/ (v[1] = w[1] /\ v[2] < w[2])

\* the planned replacements of a visit
PlanOf(v) ==
    { k \in 1..Len(replacements) :
        /\ replacements[k].pageNum = v[1]
        /\ replacements[k].xObjKeyName = ImageEntries(v[1])[v[2]].key }

\* the positions in state.pdfImages of the records a visit may select
Candidates(v) ==
    { j \in 1..Len(pdfImages) :
        /\ pdfImages[j].pageNum = v[1]
        /\ DimOf(pdfImages[j]) =
              DimOf(srcDoc.objects[ImageEntries(v[1])[v[2]].ref]) }

\* the keys consumed by the visits before v
ConsumedBefore(v) ==
    { ImgKey(replacements[k].optimizedImg) :
        k \in UNION { PlanOf(w) : w \in { u \in Visits : Earlier(u, v) } } }

\* C29: the matcher visits the image XObjects page by page and, on a page,
\* in the order of the dictionary entries; a visit selects the first
\* record in session order, among the records of its page with exactly
\* the width and the height of the XObject, that no earlier visit has
\* consumed, and consumes it under the key of its page and index; a visit
\* with no such record plans nothing; no XObject is paired with a record
\* of another page or of other dimensions.
C29_FirstUnmatchedWins ==
    PlanBuilt =>
        /\ \A k \in 1..Len(replacements) : \E v \in Visits : k \in PlanOf(v)
        /\ \A v \in Visits :
              LET free == { j \in Candidates(v) :
                             ImgKey(pdfImages[j]) \notin ConsumedBefore(v) }
              IN  IF free = {}
                  THEN PlanOf(v) = {}
                  ELSE \E k \in 1..Len(replacements) :
                          /\ PlanOf(v) = {k}
                          /\ replacements[k].optimizedImg =
                                pdfImages[Least(free)]
                          /\ replacements[k].xObjRef =
                                ImageEntries(v[1])[v[2]].ref
                          /\ ImgKey(replacements[k].optimizedImg)
                                \in matchedImages
        /\ \A v, w \in Visits : \A k \in PlanOf(v) : \A l \in PlanOf(w) :
              Earlier(v, w) => k < l
        /\ matchedImages =
              { <<replacements[k].optimizedImg.pageNum,
                  replacements[k].optimizedImg.index>> :
                  k \in 1..Len(replacements) }
        /\ \A k \in 1..Len(replacements) :
              /\ replacements[k].optimizedImg.pageNum = replacements[k].pageNum
              /\ DimOf(replacements[k].optimizedImg) =
                    DimOf(srcDoc.objects[replacements[k].xObjRef])

\* two XObjects of page 1 with the same dimensions and two records of
\* page 1 with these dimensions: the first entry has the first record, the
\* second entry the second
C29_Witness ==
    /\ PlanBuilt
    /\ Len(replacements) = 2
    /\ replacements[1].pageNum = 1 /\ replacements[2].pageNum = 1
    /\ replacements[1].xObjRef # replacements[2].xObjRef
    /\ DimOf(replacements[1]) = DimOf(replacements[2])
    /\ replacements[1].optimizedImg.index = 0
    /\ replacements[2].optimizedImg.index = 1

(***************************************************************************)
(* C30: the depths of the two stacks.                                      *)
(***************************************************************************)
ClipDepth == Len(clippingStack)

\* the clip side-stack holds one entry for each frame above the first
C30_Depths == ClipDepth = Depth - 1

\* a step of the scan of a page changes both depths by the same amount:
\* by 1 on a save and on no other operator, by -1 on a restore above the
\* first frame and on no other operator
C30_Step ==
    \/ ~(pc = "scan" /\ pc' = "scan")
    \/ LET dt == Len(transformStack') - Depth
           dc == Len(clippingStack') - ClipDepth
       IN  /\ dt = dc
           /\ dt = IF OpSave THEN 1
                   ELSE IF OpRestore /\ Depth > 1 THEN -1
                   ELSE 0

\* C30: in every state of a page scan the clip side-stack holds exactly
\* (transform stack depth - 1) entries; a save pushes one entry on both
\* stacks, a restore pops both or neither, and no other operator changes
\* the depth of either.
C30_PairedDepths == []C30_Depths /\ [][C30_Step]_vars

\* two saves and a restore: two frames and one saved clip region
C30_Witness ==
    /\ pc = "scan" /\ i = 3
    /\ nRest = 1
    /\ Depth = 2
    /\ ClipDepth = 1

(***************************************************************************)
(* C31: the state a page starts with.                                      *)
(***************************************************************************)
\* the scan of a page is about to consume its first operator
PageStart == pc = "scan" /\ i = 0

\* C31: every page starts with a transform stack that holds the identity
\* matrix only, an empty clip side-stack, no clip bounds, no extracted
\* name, shading counter 0 and no dependency name, whatever the pages
\* before it consumed; the records of the pages before it and the index
\* counter, which numbers the next record, are carried over.
C31_FreshPage ==
    PageStart =>
        /\ transformStack = <<Identity>>
        /\ currentTransform = Identity
        /\ clippingStack = <<>>
        /\ currentClipBounds = NoClip
        /\ extractedObjects = {}
        /\ shadingIndex = 0
        /\ lastDependencyName = NullName
        /\ imageIndex = Len(allImages)
        /\ Len(origin) = Len(allImages)
        /\ \A j \in 1..Len(allImages) :
              /\ allImages[j].index = j - 1
              /\ allImages[j].pageNum = origin[j][1]
              /\ origin[j][1] < pageNum

\* page 2 starts after a page 1 of three operators that has left a record
C31_Witness ==
    /\ PageStart
    /\ pageNum = 2
    /\ steps = 3
    /\ Len(allImages) = 1
    /\ origin[1] = <<1, 2>>

(***************************************************************************)
(* C32: the set of extracted names of a page.                              *)
(***************************************************************************)
\* the positions of the records the current page has emitted
RecordsOfPage == { j \in 1..Len(allImages) : origin[j][1] = pageNum }

\* the records of the page that are not shadings are as many as the
\* extracted names, and every extracted name has its record on the page
C32_Counted ==
    pc = "scan" =>
        /\ Cardinality(extractedObjects) + shadingIndex
              = Cardinality(RecordsOfPage)
        /\ \A n \in extractedObjects :
              \E j \in RecordsOfPage :
                  allImages[j].imageName
                     \in {BitmapName(pageNum, n), FormName(pageNum, n)}

\* this paint finds an object it can extract
Extractable(code, n) ==
    \/ objs[n].kind = "bitmap"
    \/ /\ objs[n].kind = "form"
       /\ code = "paintFormXObjectBegin"
       /\ PaintedFormSize(n)[1] > 1 /\ PaintedFormSize(n)[2] > 1

C32_Step ==
    \/ ~(pc = "scan" /\ pc' = "scan")
    \/ /\ \/ extractedObjects' = extractedObjects
          \/ /\ Emitted
             /\ \E n \in Names \ extractedObjects :
                   /\ extractedObjects' = extractedObjects \cup {n}
                   /\ NewName \in {BitmapName(pageNum, n), FormName(pageNum, n)}
       /\ \A code \in PaintCodes : \A n \in Names \ extractedObjects :
             (Extractable(code, n) /\ Paint(code, n)) =>
                 (Emitted /\ n \in extractedObjects')

\* C32: a name enters the set of extracted names of the page only in the
\* step that emits a record for it; a paint whose name is not in the set
\* is attempted, whether or not earlier paints of the name were skipped;
\* in every state of the scan of a page the bitmap and form records of
\* the page are as many as the names of the set.
C32_ExtractedWithRecord == []C32_Counted /\ [][C32_Step]_vars

\* the first paint of Fm1 was skipped as degenerate; after a transform the
\* second paint of Fm1 has emitted its record
C32_Witness ==
    /\ pc = "scan" /\ i = 3
    /\ painted[<<"Fm1">>] = 2
    /\ currentTransform # Identity
    /\ extractedObjects = {<<"Fm1">>}
    /\ Len(allImages) = 1
    /\ origin[1] = <<pageNum, 2>>

(***************************************************************************)
(* C33: what the records of a plan were extracted from.                    *)
(***************************************************************************)
\* the record was rasterized from a Form XObject or from a shading fill
Rasterized(img) ==
    Len(img.imageName) >= 3 /\ img.imageName[3] \in {"form", "shading"}

\* C33: every planned replacement pairs its image XObject with a record
\* extracted from a bitmap image; no record rasterized from a Form XObject
\* or from a shading fill is in the plan, whatever its dimensions are.
C33_BitmapRecordsOnly ==
    \A k \in 1..Len(replacements) : ~Rasterized(replacements[k].optimizedImg)

(***************************************************************************)
(* C38: the branch of Save and the extraction mode.                        *)
(***************************************************************************)
\* the session is the record list of renderPdfPages
FullPages(images) ==
    /\ images # <<>>
    /\ \A k \in 1..Len(images) : images[k].imageName = PageTag(images[k].pageNum)

\* C38: Save runs the match-and-patch branch on the original document
\* only for a session of 'images' mode; on a session of 'fullpages' mode
\* it does not enter that branch.
C38_BranchFollowsMode == spc # "idle" => ~FullPages(pdfImages)

(***************************************************************************)
(* C34: records that were never optimized.                                 *)
(***************************************************************************)
\* the original image XObjects the plan pairs with unoptimized records only
PairedUnoptimized ==
    { r \in PlannedRefs :
        \A k \in 1..Len(replacements) :
            replacements[k].xObjRef = r =>
                /\ replacements[k].optimizedImg.optimizedDataURL = "null"
                /\ ~replacements[k].optimizedImg.isOptimized }

\* C34: an original image XObject is modified by a save only if a record
\* paired with it has been optimized; an XObject whose paired records
\* have optimizedData null is in the saved document as in the original,
\* with the page entries naming it.
C34_UnoptimizedUnchanged ==
    spc = "done" => \A r \in PairedUnoptimized : Untouched(output, r)

(***************************************************************************)
(* C35: the record a preview Apply writes.                                 *)
(***************************************************************************)
\* C35: when a preview Apply completes, the only record that changes is
\* the record that was selected when Apply was clicked, the one whose
\* raster was compressed, also when the selection moved in between.
C35_StoredInSelected ==
    [][~(applying # <<>> /\ applying' = <<>>) \/
       \A k \in 1..Len(pdfImages) :
           pdfImages'[k] # pdfImages[k] => k = applying[1].img.index + 1]_vars

(***************************************************************************)
(* C36: the document of the stored bytes and the document of the records.  *)
(***************************************************************************)
\* the records a session held before the upload
EarlierRecords ==
    UNION { { s[k] : k \in 1..Len(s) } : s \in EarlierSessions }

\* the upload has settled and Save finds bytes and records to work on
SaveCanRun ==
    /\ pc \in {"shown", "rejected"}
    /\ spc = "idle"
    /\ pdfOriginalBytes = "valid"
    /\ pdfImages # <<>>

\* C36: whenever Save can run, the records of the session were extracted
\* from the document whose bytes are stored: after an upload has stored
\* its bytes, no record of an earlier document is in the session.
C36_SameDocument ==
    SaveCanRun => \A k \in 1..Len(pdfImages) : pdfImages[k] \notin EarlierRecords

(***************************************************************************)
(* C37: what a save leaves of the session.                                 *)
(***************************************************************************)
\* the graph after the replacements of plan that ended as outcomes tells,
\* applied in order to doc
RECURSIVE Replay(_, _, _)
Replay(doc, plan, outcomes) ==
    IF outcomes = <<>> THEN doc
    ELSE LET n == Len(outcomes)
             before == Replay(doc, plan, SubSeq(outcomes, 1, n - 1))
         IN  CASE outcomes[n] = "embedded" -> EmbedPng(before, plan[n])
               [] outcomes[n] = "overwritten" -> OverwriteInPlace(before, plan[n])
               [] OTHER -> before

C37_Step ==
    /\ pdfImages' = pdfImages
    /\ pdfOriginalBytes' = pdfOriginalBytes
    /\ srcDoc' = srcDoc
    /\ extracted' = extracted

Undoes == stack # <<>> /\ Len(stack') = Len(stack) - 1

\* C39: an Undo shows the image the editor showed immediately before the
\* most recent edit, which is the state the push before that edit
\* recorded; the Undo that empties the history shows the image that was
\* loaded; an Undo on an empty history changes nothing.
C39_UndoRestoresPrevious ==
    [][/\ ~Undoes \/ editableImage' = <<stack[Len(stack)].width>>
       /\ ~(Undoes /\ stack' = <<>>) \/ editableImage' = OriginalImage
       /\ ~(stack = <<>> /\ stack' = <<>>) \/ UNCHANGED vars]_vars

====
